---- MODULE Spec2Model ----
(***************************************************************************)
(* PhotoFiler: the three pipelines that organise construction-site media.  *)
(*   sort    sort_media_by_date.main   (Phase 1 consolidate, Phase 2 move) *)
(*   master  PhotoProcessor.run        (stage, name, copy to the output)   *)
(*   rename  rename_photos_in_folder   (rename inside the date folders)    *)
(*                                                                         *)
(* Strings cannot be taken apart in TLA+, so a file name is the sequence   *)
(* of the tokens its stem has between underscores, plus its extension:     *)
(*   IMG_20240115_091500.jpg  is  [stem |-> <<"IMG","20240115","091500">>, *)
(*                                 ext |-> "jpg"].                         *)
(* Two names are equal as strings iff they are equal as token sequences,   *)
(* since no token holds an underscore.                                     *)
(***************************************************************************)
EXTENDS Integers, Sequences, FiniteSets, TLC

VARIABLES
    prog,       \* which program runs: "sort", "master" or "rename"
    env,        \* the platform: codec and classifier availability, birth-time, target format, disk space
    scenario,   \* "parity": a dry run, then a live run on the same input; "rerun": two live runs in a row
    run,        \* 1 or 2
    dry_run,    \* the dry-run flag in effect for the current run
    tree0,      \* the input tree and audit files before the first run
    fs,         \* the filesystem: [dirs, files]
    csv,        \* the audit files: name -> rows
    pc,         \* position in the current run
    dirsLeft,   \* Phase 1: top-level entries still to visit
    cur,        \* Phase 1: the invalid folder being drained
    filesLeft,  \* the files of the current loop still to process, in order
    log,        \* the records of the current run, in order
    listed,     \* the order in which each directory was last listed by the first run
    end1,       \* what the first run left: [fs, csv, log]
    specific_files, \* run(specific_files): the selected paths, <<>> for the whole input folder
    probs,      \* the model pass: the classifier's confidence for each candidate label
    detected,   \* the model pass: the labels kept, with their confidence
    writers,    \* two interleaved sort runs: each one's [pc, filesLeft, src, dst]
    gui         \* the window: [start_btn, dropped_paths, process_folder_var, dry_run_var, threads, after]

vars == <<prog, env, scenario, run, dry_run, tree0, fs, csv, pc, dirsLeft, cur,
          filesLeft, log, listed, end1, specific_files, probs, detected, writers, gui>>

-----------------------------------------------------------------------------
(* Bounds *)

\* The most files an input tree holds.
MaxFiles == 2

-----------------------------------------------------------------------------
(* Timestamps.  A timestamp is [d |-> "YYYYMMDD", t |-> "HHMMSS"].           *)

NoTS == [d |-> "", t |-> ""]
\* an EXIF DateTimeOriginal value that is not "YYYY:MM:DD HH:MM:SS"
BadTS == [d |-> "bad", t |-> "bad"]

T1 == [d |-> "20240115", t |-> "091500"]
T2 == [d |-> "20240201", t |-> "103000"]
T3 == [d |-> "20250708", t |-> "052126"]
\* the wall clock while the program runs: later than every file's own times
NowTS == [d |-> "20260301", t |-> "120000"]

\* 8-digit tokens and whether datetime.strptime(.., "%Y%m%d") accepts them
DateToks == {"20240115", "20240201", "20250708", "20260301", "20241345"}
ValidDate(d) == d \in {"20240115", "20240201", "20250708", "20260301"}
\* 6-digit tokens; strptime "%H%M%S" accepts hours < 24, minutes and seconds < 60
TimeToks == {"091500", "103000", "052126", "120000", "000100", "256199"}
ValidTime(t) == t \in {"091500", "103000", "052126", "120000", "000100"}

\* strftime("%H%M") of a time
HM(t) ==
    CASE t = "091500" -> "0915"
      [] t = "103000" -> "1030"
      [] t = "052126" -> "0521"
      [] t = "120000" -> "1200"
      [] t = "000100" -> "0001"

\* strftime("%Y%m%d_%H%M") as stem tokens
date_prefix(ts) == <<ts.d, HM(ts.t)>>

-----------------------------------------------------------------------------
(* Names, paths and files *)

NoName == [stem |-> <<>>, ext |-> ""]
N(stem, ext) == [stem |-> stem, ext |-> ext]
P(dir, name) == [dir |-> dir, name |-> name]
NoPath == P(<<>>, NoName)

\* str.lower() on the extensions that occur
Lower(e) ==
    CASE e = "JPG" -> "jpg"
      [] e = "Jpg" -> "jpg"
      [] e = "HEIC" -> "heic"
      [] e = "MP4" -> "mp4"
      [] OTHER -> e

INCLUDE_EXT == {"jpg", "jpeg", "png", "heic", "heif", "mov", "mp4", "hevc", "avi"}
MEDIA_EXT == {"jpg", "jpeg", "png", "heic", "heif", "mov", "mp4"}
CONVERT_TO_JPG == {"heic", "heif"}
IMAGE_EXT == {"jpg", "jpeg", "png", "heic", "heif"}
VIDEO_EXT == {"mov", "mp4", "hevc", "avi"}

\* the module constant of sort_media_by_date
DRY_RUN == FALSE

\* A file: its content (id: whose picture it is, fmt: how it is encoded), its
\* metadata and what the environment lets the program do with it.
File(id, fmt, exif, birth, mtime, empty, locked, corrupt, color, clip) ==
    [id |-> id, fmt |-> fmt, exif |-> exif, birth |-> birth, mtime |-> mtime,
     empty |-> empty, locked |-> locked, corrupt |-> corrupt,
     color |-> color, clip |-> clip]

Exists(f, p) == p \in DOMAIN f.files

\* f with file x at path p (created or overwritten)
Put(f, p, x) ==
    [f EXCEPT !.files = [q \in (DOMAIN f.files) \cup {p} |->
                            IF q = p THEN x ELSE f.files[q]]]

\* f without the file at p
Del(f, p) ==
    [f EXCEPT !.files = [q \in (DOMAIN f.files) \ {p} |-> f.files[q]]]

\* f with directory d and its parents
MkDirs(f, d) ==
    [f EXCEPT !.dirs = @ \cup {SubSeq(d, 1, k) : k \in 1..Len(d)}]

FilesIn(f, d) == {p \in DOMAIN f.files : p.dir = d}
SubDirs(f, d) == {e \in f.dirs : Len(e) = Len(d) + 1 /\ SubSeq(e, 1, Len(d)) = d}

\* every ordering of a finite set: the order a directory listing may have
Orders(S) ==
    {s \in [1..Cardinality(S) -> S] : \A i, j \in 1..Cardinality(S) : s[i] = s[j] => i = j}

Range(s) == {s[i] : i \in 1..Len(s)}

\* The orders a listing of directory key may come in, S being what it holds: any
\* order, but a directory the first run listed with these same entries lists in
\* that order again.
Listing(key, S) ==
    IF key \in DOMAIN listed /\ Range(listed[key]) = S THEN {listed[key]} ELSE Orders(S)

\* listed, with the order the first run saw directory key in
Seen(key, order) ==
    IF run = 1 THEN [k \in (DOMAIN listed) \cup {key} |-> IF k = key THEN order ELSE listed[k]]
    ELSE listed

\* the decimal numeral of a collision counter
Num(i) ==
    CASE i = 1 -> "1" [] i = 2 -> "2" [] i = 3 -> "3" [] i = 4 -> "4"
      [] i = 5 -> "5" [] i = 6 -> "6" [] i = 7 -> "7" [] i = 8 -> "8"

-----------------------------------------------------------------------------
(* sort_media_by_date: helpers *)

Root == <<"root">>

\* names that start with '.', and SKIP_DIR_NAMES / SKIP_FILE_NAMES
is_hidden(first) == first \in {".git", ".hidden", ".DS"} \/ first \in {"@eaDir"}

\* a check of the shape of the name only: eight digits
is_eight_digits(name) == name \in DateToks

\* a check that no name passes
is_never_valid(name) == FALSE

is_valid_date_folder(name) == name \in DateToks /\ ValidDate(name)

\* PIL.Image.open succeeds on this content
CanOpen(x) == ~x.corrupt /\ (x.fmt \in {"jpg", "png"} \/ (x.fmt = "heic" /\ env.heif))

\* a collision loop that gives up and keeps the taken name
probe_taken(f, dir, stem, ext, i) == P(dir, N(stem, ext))

\* a loop whose counter is raised before the first test: the first free name
\* among stem_(i+1).ext, stem_(i+2).ext, ...
probe_late(f, dir, stem, ext, i) ==
    LET free == {j \in (i + 1)..8 : ~Exists(f, P(dir, N(stem \o <<Num(j)>>, ext)))}
    IN  P(dir, N(stem \o <<Num(CHOOSE j \in free : \A k \in free : j <= k)>>, ext))

\* the loop "while candidate.exists()": the first free name stem_i.ext
RECURSIVE probe(_, _, _, _, _)
probe(f, dir, stem, ext, i) ==
    LET candidate == P(dir, N(stem \o <<Num(i)>>, ext))
    IN  IF ~Exists(f, candidate) THEN candidate ELSE probe(f, dir, stem, ext, i + 1)

\* a probing that returns the wanted name, taken or not
resolve_collision_unchecked(f, target_dir, filename) == P(target_dir, filename)

resolve_collision(f, target_dir, filename) ==
    LET candidate == P(target_dir, filename)
    IN  IF ~Exists(f, candidate) THEN candidate
        ELSE probe(f, target_dir, filename.stem, filename.ext, 1)

\* the JPG a conversion writes: same picture, re-encoded, EXIF block carried
\* when there is one, created now
Converted(x) ==
    File(x.id, "jpg", x.exif, NowTS, NowTS, FALSE, FALSE, FALSE, x.color, x.clip)

\* a conversion that, when it fails, has already truncated the file it read
convert_heic_truncating(f, heic_path) ==
    LET jpg_path == resolve_collision(f, heic_path.dir, N(heic_path.name.stem, "jpg"))
        x == f.files[heic_path]
    IN  IF ~env.heif \/ ~CanOpen(x)
        THEN [ok |-> FALSE, path |-> NoPath, fs |-> Put(f, heic_path, [x EXCEPT !.empty = TRUE])]
        ELSE [ok |-> TRUE, path |-> jpg_path, fs |-> Put(f, jpg_path, Converted(x))]

\* a conversion that reports the JPG it could not encode
convert_heic_unchecked(f, heic_path) ==
    LET jpg_path == resolve_collision(f, heic_path.dir, N(heic_path.name.stem, "jpg"))
        x == f.files[heic_path]
    IN  IF ~env.heif \/ ~CanOpen(x)
        THEN [ok |-> TRUE, path |-> jpg_path,
              fs |-> Put(f, jpg_path, [Converted(x) EXCEPT !.corrupt = TRUE])]
        ELSE [ok |-> TRUE, path |-> jpg_path, fs |-> Put(f, jpg_path, Converted(x))]

\* -> [ok, path, fs]; ok = FALSE is the None return
convert_heic_to_jpg(f, heic_path) ==
    LET jpg_path == resolve_collision(f, heic_path.dir, N(heic_path.name.stem, "jpg"))
        x == f.files[heic_path]
    IN  IF ~env.heif \/ ~CanOpen(x)
        THEN [ok |-> FALSE, path |-> NoPath, fs |-> f]
        ELSE [ok |-> TRUE, path |-> jpg_path, fs |-> Put(f, jpg_path, Converted(x))]

\* a move that only prints, whatever dry is
move_or_log_skipped(f, src, dst, dry) == [raised |-> FALSE, fs |-> f]

\* -> [raised, fs]; Path.replace overwrites dst when it exists
move_or_log(f, src, dst, dry) ==
    IF dry THEN [raised |-> FALSE, fs |-> f]
    ELSE LET f1 == MkDirs(f, dst.dir)
         IN  IF ~Exists(f1, src) \/ f1.files[src].locked
             THEN [raised |-> TRUE, fs |-> f1]
             ELSE [raised |-> FALSE, fs |-> Put(Del(f1, src), dst, f1.files[src])]

\* -> the timestamp, or NoTS for None
parse_exif_datetimeoriginal(f, path) ==
    LET x == f.files[path]
    IN  IF ~CanOpen(x) THEN NoTS
        ELSE IF x.exif = NoTS \/ x.exif = BadTS THEN NoTS
        ELSE x.exif

get_birth_or_mtime_local(f, path) ==
    IF env.birth THEN [ts |-> f.files[path].birth, method |-> "BIRTH"]
    ELSE [ts |-> f.files[path].mtime, method |-> "MTIME"]

\* target.mkdir(exist_ok=True) of root/YYYYMMDD
ensure_folder(f, root, ts) == MkDirs(f, root \o <<ts.d>>)

\* a record that leaves the method out
LogRecord_untagged(original_path, new_path, method, timestamp_used) ==
    [original_path |-> original_path, new_path |-> new_path, method |-> "",
     timestamp_used |-> timestamp_used]

LogRecord(original_path, new_path, method, timestamp_used) ==
    [original_path |-> original_path, new_path |-> new_path, method |-> method,
     timestamp_used |-> timestamp_used]

\* process_file up to dst = resolve_collision(target_dir, new_name)
\* -> [raised, skip, fs, src, dst, method, timestamp]
process_file_target(f, path) ==
    IF ~Exists(f, path)
    THEN [raised |-> TRUE, skip |-> FALSE, fs |-> f, src |-> path, dst |-> NoPath,
          method |-> "", timestamp |-> NoTS]
    ELSE IF f.files[path].empty
    THEN [raised |-> FALSE, skip |-> TRUE, fs |-> f, src |-> path, dst |-> NoPath,
          method |-> "SKIP", timestamp |-> NoTS]
    ELSE
    LET conv == IF Lower(path.name.ext) \in CONVERT_TO_JPG
                THEN convert_heic_to_jpg(f, path)
                ELSE [ok |-> FALSE, path |-> NoPath, fs |-> f]
        path2 == IF conv.ok THEN conv.path ELSE path
        \* original_path.unlink(), its failure only printed
        f1 == IF conv.ok /\ ~DRY_RUN /\ ~f.files[path].locked
              THEN Del(conv.fs, path) ELSE conv.fs
        is_video == Lower(path2.name.ext) \in VIDEO_EXT
        exif_dt == IF is_video THEN NoTS ELSE parse_exif_datetimeoriginal(f1, path2)
        bm == get_birth_or_mtime_local(f1, path2)
        method == IF exif_dt # NoTS THEN "EXIF" ELSE bm.method
        timestamp == IF exif_dt # NoTS THEN exif_dt ELSE bm.ts
        f2 == ensure_folder(f1, Root, timestamp)
        dst == resolve_collision(f2, Root \o <<timestamp.d>>, path2.name)
    IN  [raised |-> FALSE, skip |-> FALSE, fs |-> f2, src |-> path2, dst |-> dst,
         method |-> IF path2 = path THEN method ELSE method \o "_CONVERTED",
         timestamp |-> timestamp]

\* process_file from move_or_log(path, dst, DRY_RUN) on, t being what
\* process_file_target returned
process_file_move(f, path, t) ==
    LET mv == move_or_log(t.fs, t.src, t.dst, DRY_RUN)
    IN  IF t.raised THEN [raised |-> TRUE, fs |-> f, rec |-> NoPath]
        ELSE IF t.skip
        THEN [raised |-> FALSE, fs |-> f, rec |-> LogRecord(path, NoPath, "SKIP", NoTS)]
        ELSE IF mv.raised THEN [raised |-> TRUE, fs |-> mv.fs, rec |-> NoPath]
        ELSE [raised |-> FALSE, fs |-> mv.fs,
              rec |-> LogRecord(path, t.dst, t.method, t.timestamp)]

\* -> [raised, fs, rec]
process_file(f, path) == process_file_move(f, path, process_file_target(f, path))

\* the eligible media files directly in directory d
MediaIn(f, d) ==
    {p \in FilesIn(f, d) : ~is_hidden(p.name.stem[1]) /\ Lower(p.name.ext) \in INCLUDE_EXT}

\* a folder test that looks for media files only
holds_no_media(f, entry) == MediaIn(f, entry) = {}

\* "not any(entry.iterdir())": the folder holds no file and no directory
is_empty_dir(f, entry) == FilesIn(f, entry) = {} /\ SubDirs(f, entry) = {}

\* entry.rmdir() raises OSError: a directory the platform does not let go of
\* (in use by another process)
rmdir_raises(entry) == entry[Len(entry)] \in {"held"}

-----------------------------------------------------------------------------
(* sort_media_by_date.main *)

\* main up to the Phase 1 listing of the root
SortStart ==
    /\ prog = "sort" /\ pc = "start"
    /\ dirsLeft' \in Listing(<<"dirs">>, {e[2] : e \in SubDirs(fs, Root)})
    /\ listed' = Seen(<<"dirs">>, dirsLeft')
    /\ log' = <<>>
    /\ pc' = "phase1"
    /\ UNCHANGED <<writers, probs, detected, specific_files, gui, prog, env, scenario, run, dry_run, tree0, fs, csv, cur, filesLeft, end1>>

\* consolidate_from_invalid_folders: the outer loop reaches an entry
ConsolidateEnter ==
    /\ prog = "sort" /\ pc = "phase1" /\ dirsLeft # <<>>
    /\ LET e == Head(dirsLeft)
       IN  IF is_hidden(e) \/ is_valid_date_folder(e)
           THEN UNCHANGED <<pc, cur, filesLeft, listed>>
           ELSE /\ pc' = "drain"
                /\ cur' = e
                /\ filesLeft' \in Listing(Root \o <<e>>, MediaIn(fs, Root \o <<e>>))
                /\ listed' = Seen(Root \o <<e>>, filesLeft')
    /\ dirsLeft' = Tail(dirsLeft)
    /\ UNCHANGED <<writers, probs, detected, specific_files, gui, prog, env, scenario, run, dry_run, tree0, fs, csv, log, end1>>

\* consolidate_from_invalid_folders: one media file of the folder
ConsolidateMove ==
    /\ prog = "sort" /\ pc = "drain" /\ filesLeft # <<>>
    /\ LET media_file == Head(filesLeft)
           dst == resolve_collision(fs, Root, media_file.name)
           mv == move_or_log(fs, media_file, dst, dry_run)
       IN  /\ fs' = mv.fs
           /\ log' = Append(log, IF mv.raised
                                 THEN LogRecord(media_file, NoPath, "ERROR", NoTS)
                                 ELSE LogRecord(media_file, dst, "CONSOLIDATE", NoTS))
    /\ filesLeft' = Tail(filesLeft)
    /\ UNCHANGED <<writers, probs, detected, specific_files, gui, prog, env, scenario, run, dry_run, tree0, csv, pc, dirsLeft, cur, listed, end1>>

\* consolidate_from_invalid_folders: the folder is drained; remove it if empty,
\* "except Exception: pass" around the test and the removal
ConsolidateRemoveFolder ==
    /\ prog = "sort" /\ pc = "drain" /\ filesLeft = <<>>
    /\ LET entry == Root \o <<cur>>
       IN  IF ~dry_run /\ is_empty_dir(fs, entry) /\ ~rmdir_raises(entry)
           THEN /\ fs' = [fs EXCEPT !.dirs = @ \ {entry}]
                /\ log' = Append(log, LogRecord(P(entry, NoName), NoPath, "REMOVE_FOLDER", NoTS))
           ELSE UNCHANGED <<fs, log>>
    /\ pc' = "phase1"
    /\ cur' = ""
    /\ UNCHANGED <<writers, probs, detected, specific_files, gui, prog, env, scenario, run, dry_run, tree0, csv, dirsLeft, filesLeft, listed, end1>>

\* main: Phase 1 is over; files = list(iter_media_files(root))
SortEnumerate ==
    /\ prog = "sort" /\ pc = "phase1" /\ dirsLeft = <<>>
    /\ filesLeft' \in Listing(Root, MediaIn(fs, Root))
    /\ listed' = Seen(Root, filesLeft')
    /\ pc' = "phase2"
    /\ UNCHANGED <<writers, probs, detected, specific_files, gui, prog, env, scenario, run, dry_run, tree0, fs, csv, dirsLeft, cur, log, end1>>

\* main: one turn of the Phase 2 loop, its try/except included
SortProcessFile ==
    /\ prog = "sort" /\ pc = "phase2" /\ filesLeft # <<>>
    /\ LET p == Head(filesLeft)
           r == process_file(fs, p)
       IN  /\ fs' = r.fs
           /\ log' = Append(log, IF r.raised THEN LogRecord(p, NoPath, "ERROR", NoTS)
                                 ELSE r.rec)
    /\ filesLeft' = Tail(filesLeft)
    /\ UNCHANGED <<writers, probs, detected, specific_files, gui, prog, env, scenario, run, dry_run, tree0, csv, pc, dirsLeft, cur, listed, end1>>

\* write_log: rows appended to root/sort_log.csv, created when absent
write_log(c, rows) ==
    [k \in (DOMAIN c) \cup {"sort_log"} |->
        IF k = "sort_log"
        THEN (IF "sort_log" \in DOMAIN c THEN c["sort_log"] ELSE <<>>) \o rows
        ELSE c[k]]

\* main: the loop is over; write the log
SortWriteLog ==
    /\ prog = "sort" /\ pc = "phase2" /\ filesLeft = <<>>
    /\ csv' = write_log(csv, log)
    /\ pc' = "done"
    /\ UNCHANGED <<writers, probs, detected, specific_files, gui, prog, env, scenario, run, dry_run, tree0, fs, dirsLeft, cur, filesLeft, log, listed, end1>>

-----------------------------------------------------------------------------
(* master_photo_processor: PhotoProcessor *)

InDir == <<"in">>
TempDir == <<"tmp">>
OutDir == <<"out">>
Cwd == <<"cwd">>

\* s[:n]
FirstN(s, n) == SubSeq(s, 1, IF Len(s) < n THEN Len(s) ELSE n)

\* the items of s in order, each once: "if tag not in list: list.append(tag)"
RECURSIVE Dedupe(_, _)
Dedupe(s, acc) ==
    IF s = <<>> THEN acc
    ELSE Dedupe(Tail(s), IF \E i \in 1..Len(acc) : acc[i] = Head(s)
                         THEN acc ELSE Append(acc, Head(s)))

\* "_".join(tags) as stem tokens
RECURSIVE Join(_)
Join(tags) == IF tags = <<>> THEN <<>> ELSE Head(tags) \o Join(Tail(tags))

\* tag.replace(" ", "_").replace("/", "_") of a candidate label
NormTag(raw) ==
    CASE raw = "excavator" -> <<"excavator">>
      [] raw = "asphalt paving" -> <<"asphalt", "paving">>
      [] raw = "blue water pipe in trench" -> <<"blue", "water", "pipe", "in", "trench">>
      [] raw = "blue water pipe" -> <<"blue", "water", "pipe">>
      [] raw = "pit lid/riser" -> <<"pit", "lid", "riser">>

\* shutil.copy2: content and modify-time carried, a new file otherwise
Copy(x) == [x EXCEPT !.birth = NowTS, !.locked = FALSE]

\* shutil.rmtree(d)
RmTree(f, d) ==
    LET under(e) == Len(e) >= Len(d) /\ SubSeq(e, 1, Len(d)) = d
    IN  [dirs |-> {e \in f.dirs : ~under(e)},
         files |-> [q \in {q \in DOMAIN f.files : ~under(q.dir)} |-> f.files[q]]]

\* shutil.rmtree raises when a file under d cannot be removed
rmtree_raises(f, d) ==
    \E q \in DOMAIN f.files :
        Len(q.dir) >= Len(d) /\ SubSeq(q.dir, 1, Len(d)) = d /\ f.files[q].locked

\* -> [raised, fs]
setup_temp_directory(f) ==
    IF TempDir \in f.dirs /\ rmtree_raises(f, TempDir)
    THEN [raised |-> TRUE, fs |-> f]
    ELSE [raised |-> FALSE,
          fs |-> MkDirs(IF TempDir \in f.dirs THEN RmTree(f, TempDir) ELSE f, TempDir)]

cleanup_temp_directory(f, dry) ==
    IF TempDir \in f.dirs /\ ~dry THEN RmTree(f, TempDir) ELSE f

\* -> [ok, path, fs]; ok = FALSE is the None return
PP_convert_heic_to_jpg(f, heic_path, output_dir, dry) ==
    LET jpg_path == resolve_collision(f, output_dir, N(heic_path.name.stem, "jpg"))
        x == f.files[heic_path]
    IN  IF ~env.heif THEN [ok |-> FALSE, path |-> NoPath, fs |-> f]
        ELSE IF dry THEN [ok |-> TRUE, path |-> jpg_path, fs |-> f]
        ELSE IF ~CanOpen(x) THEN [ok |-> FALSE, path |-> NoPath, fs |-> f]
        ELSE [ok |-> TRUE, path |-> jpg_path,
              fs |-> Put(MkDirs(f, output_dir), jpg_path, Converted(x))]

\* the content img.save writes for a destination suffix
Encoded(x, ext) ==
    [x EXCEPT !.fmt = IF Lower(ext) \in {"jpg", "jpeg"} THEN "jpg" ELSE Lower(ext),
              !.exif = NoTS, !.birth = NowTS, !.mtime = NowTS, !.locked = FALSE]

\* -> [ok, fs]; partway: img.save has created dest_path and raises before the
\* encoding is complete (a write or the closing flush fails); the except clause
\* prints and returns False
convert_image_format(f, source_path, dest_path, dry, partway) ==
    IF dry THEN [ok |-> TRUE, fs |-> f]
    ELSE LET f1 == MkDirs(f, dest_path.dir)
             x == f1.files[source_path]
         IN  IF Lower(source_path.name.ext) \notin IMAGE_EXT
             THEN [ok |-> TRUE, fs |-> Put(f1, dest_path, Copy(x))]
             ELSE IF ~CanOpen(x) THEN [ok |-> FALSE, fs |-> f1]
             ELSE IF partway
             THEN [ok |-> FALSE,
                   fs |-> Put(f1, dest_path,
                              [Encoded(x, dest_path.name.ext) EXCEPT !.corrupt = TRUE])]
             ELSE [ok |-> TRUE, fs |-> Put(f1, dest_path, Encoded(x, dest_path.name.ext))]

\* a resolution that reads the embedded creation time of any container
get_file_timestamp_embedded(f, file_path) ==
    IF ~Exists(f, file_path) THEN [raised |-> TRUE, ts |-> NoTS]
    ELSE LET x == f.files[file_path]
         IN  IF ~x.corrupt /\ x.exif # NoTS /\ x.exif # BadTS
             THEN [raised |-> FALSE, ts |-> x.exif]
             ELSE [raised |-> FALSE, ts |-> IF env.birth THEN x.birth ELSE x.mtime]

\* -> [raised, ts]
get_file_timestamp(f, file_path) ==
    IF ~Exists(f, file_path) THEN [raised |-> TRUE, ts |-> NoTS]
    ELSE LET x == f.files[file_path]
         IN  IF /\ Lower(file_path.name.ext) \in {"jpg", "jpeg", "png"}
                /\ CanOpen(x) /\ x.exif # NoTS /\ x.exif # BadTS
             THEN [raised |-> FALSE, ts |-> x.exif]
             ELSE [raised |-> FALSE, ts |-> IF env.birth THEN x.birth ELSE x.mtime]

\* the colour bands _color_tags tests, in the order of its five tests (red1 and
\* red2 added up)
Bands == <<"yellow", "orange", "blue", "green", "red">>

\* the label a band over the threshold appends
BandTag(b) ==
    CASE b = "yellow" -> <<"yellow", "trench", "protection">>
      [] b = "orange" -> <<"orange", "conduit">>
      [] b = "blue" -> <<"blue", "water", "pipe">>
      [] b = "green" -> <<"green", "sewer", "pipe">>
      [] b = "red" -> <<"red", "electrical", "marker">>

\* a heuristic that appends the labels in the order the picture shows the bands
color_tags_unordered(x) ==
    IF ~x.corrupt /\ x.fmt \in {"jpg", "png"}
    THEN [i \in 1..Len(x.color) |-> BandTag(x.color[i])] ELSE <<>>

\* cv2.imread reads JPEG and PNG only (None, or an exception, gives no label);
\* x.color: the bands that cover more than 2% of the picture
color_tags(x) ==
    IF ~x.corrupt /\ x.fmt \in {"jpg", "png"}
    THEN LET over == SelectSeq(Bands, LAMBDA b : \E i \in 1..Len(x.color) : x.color[i] = b)
         IN  [i \in 1..Len(over) |-> BandTag(over[i])]
    ELSE <<>>

\* an analysis whose fallback is another label
analyze_photo_unlabelled(f, image_path) ==
    LET x == f.files[image_path]
    IN  IF color_tags(x) # <<>> THEN FirstN(color_tags(x), 3) ELSE <<(<<"unknown">>)>>

\* -> the "tags" of the returned analysis
analyze_photo_content(f, image_path) ==
    LET x == f.files[image_path]
        ct == color_tags(x)
        fallback == FirstN(IF ct # <<>> THEN ct ELSE <<(<<"construction">>)>>, 3)
    IN  IF ~env.ai \/ ~CanOpen(x) THEN fallback
        ELSE LET clip_tags == Dedupe([i \in 1..Len(x.clip) |-> NormTag(x.clip[i])], <<>>)
             IN  FirstN(Dedupe(ct \o clip_tags, <<>>), 3)

\* a naming that gives every file the configured target extension
generate_filename_any_source(original_path, timestamp, tags) ==
    LET ext == Lower(original_path.name.ext)
        extension == IF env.target_ext # "" THEN env.target_ext
                     ELSE IF ext \in CONVERT_TO_JPG THEN "jpg" ELSE ext
    IN  N(date_prefix(timestamp) \o Join(FirstN(tags, 3)), extension)

generate_descriptive_filename(original_path, timestamp, tags) ==
    LET ext == Lower(original_path.name.ext)
        description == IF tags # <<>> THEN Join(FirstN(tags, 3)) ELSE <<"construction">>
        extension == IF env.target_ext # "" /\ ext \in IMAGE_EXT THEN env.target_ext
                     ELSE IF ext \in CONVERT_TO_JPG THEN "jpg"
                     ELSE IF ext # "" THEN ext ELSE "jpg"
    IN  N(date_prefix(timestamp) \o description, extension)

MasterResult(original_path, final_path, timestamp, converted, analyzed, success, error) ==
    [original_path |-> original_path, final_path |-> final_path, timestamp |-> timestamp,
     converted |-> converted, analyzed |-> analyzed, success |-> success, error |-> error]

\* -> [fs, rec]
process_single_photo(f, photo_path, temp_dir, dry, partway) ==
    LET isHeic == Lower(photo_path.name.ext) \in CONVERT_TO_JPG
        conv == IF isHeic /\ ~dry
                THEN PP_convert_heic_to_jpg(f, photo_path, temp_dir, dry)
                ELSE [ok |-> FALSE, path |-> NoPath, fs |-> f]
        current_path == IF conv.ok THEN conv.path ELSE photo_path
        converted1 == isHeic /\ (dry \/ conv.ok)
        f1 == conv.fs
        gt == get_file_timestamp(f1, current_path)
    IN  IF gt.raised
        THEN [fs |-> f1,
              rec |-> MasterResult(photo_path, NoPath, NoTS, converted1, FALSE, FALSE, "err")]
        ELSE
        LET timestamp == gt.ts
            tags == analyze_photo_content(f1, current_path)
            new_filename == generate_descriptive_filename(photo_path, timestamp, tags)
            final_dir == temp_dir \o <<timestamp.d>>
            final_path == resolve_collision(f1, final_dir, new_filename)
            differs == Lower(final_path.name.ext) # Lower(photo_path.name.ext)
            viaConvert == env.target_ext # "" /\
                          Lower(final_path.name.ext) # Lower(current_path.name.ext)
            cv == convert_image_format(MkDirs(f1, final_dir), current_path, final_path, dry,
                                       partway)
            f2 == IF dry THEN f1
                  ELSE IF viaConvert THEN cv.fs
                  ELSE IF current_path # final_path
                  THEN Put(MkDirs(f1, final_dir), final_path, Copy(f1.files[current_path]))
                  ELSE MkDirs(f1, final_dir)
        IN  IF ~dry /\ viaConvert /\ ~cv.ok
            THEN [fs |-> f2,
                  rec |-> MasterResult(photo_path, NoPath, timestamp,
                                       converted1 \/ differs, TRUE, FALSE, "err")]
            ELSE [fs |-> f2,
                  rec |-> MasterResult(photo_path, final_path, timestamp,
                                       converted1 \/ differs, TRUE, TRUE, "")]

\* a merge that copies onto the name it is given
merge_dest_onto(f, dest_folder, name) == P(dest_folder, name)

\* the merge loop: "while dest_file.exists()" with name_part, ext = rsplit('.', 1)
merge_dest(f, dest_folder, name) == resolve_collision(f, dest_folder, name)

\* copy the staged files, in the order given; existing: the date folders the
\* output already had
RECURSIVE copy_staged(_, _, _)
copy_staged(f, order, existing) ==
    IF order = <<>> THEN f
    ELSE LET file_path == Head(order)
             dest_folder == OutDir \o <<file_path.dir[2]>>
             dest_file == IF file_path.dir[2] \in existing
                          THEN merge_dest(f, dest_folder, file_path.name)
                          ELSE P(dest_folder, file_path.name)
         IN  copy_staged(Put(MkDirs(f, dest_folder), dest_file, Copy(f.files[file_path])),
                         Tail(order), existing)

\* the files staged in the date folders of the temporary directory
Staged(f) == {p \in DOMAIN f.files : Len(p.dir) = 2 /\ p.dir[1] = TempDir[1]}

\* write_master_log: open(.., 'w') of the log in the output directory, or in
\* the working directory in a dry run
write_master_log(c, rows, dry) ==
    LET k == IF dry THEN "cwd/master_log" ELSE "out/master_log"
    IN  [j \in (DOMAIN c) \cup {k} |-> IF j = k THEN rows ELSE c[j]]

\* the extensions either glob pattern of an extension matches
GlobExts == MEDIA_EXT \cup {"JPG", "HEIC", "MP4"}

\* ext.upper()
Upper(e) ==
    CASE e = "jpg" -> "JPG" [] e = "jpeg" -> "JPEG" [] e = "png" -> "PNG"
      [] e = "heic" -> "HEIC" [] e = "heif" -> "HEIF" [] e = "mov" -> "MOV"
      [] e = "mp4" -> "MP4"

\* input_dir.glob("*" + ext): the files of d whose name ends in ext, compared
\* exactly, or without regard to case where the platform does so
glob(f, d, ext) ==
    {p \in FilesIn(f, d) : IF env.nocase THEN Lower(p.name.ext) = Lower(ext)
                                         ELSE p.name.ext = ext}

\* run: media_files, for the order o in which d lists and the order es in which
\* "for ext in MEDIA_EXT" takes the extensions: glob(*ext), then glob(*EXT)
RECURSIVE media_files(_, _, _, _)
media_files(f, d, o, es) ==
    IF es = <<>> THEN <<>>
    ELSE SelectSeq(o, LAMBDA p : p \in glob(f, d, Head(es)))
         \o SelectSeq(o, LAMBDA p : p \in glob(f, d, Upper(Head(es))))
         \o media_files(f, d, o, Tail(es))

\* run: the banner, the selected files that exist and have a media extension or
\* the listing of the input directory, then setup_temp_directory, outside the
\* try: what it raises leaves run
MasterStart ==
    /\ prog = "master" /\ pc = "start"
    /\ filesLeft' \in
          IF specific_files # <<>>
          THEN {SelectSeq(specific_files,
                          LAMBDA p : Exists(fs, p) /\ Lower(p.name.ext) \in MEDIA_EXT)}
          ELSE IF env.nocase
          THEN {media_files(fs, InDir, o, es) :
                   o \in Orders(FilesIn(fs, InDir)),
                   es \in Orders({e \in MEDIA_EXT : glob(fs, InDir, e) # {}})}
          ELSE Listing(InDir, {p \in FilesIn(fs, InDir) : p.name.ext \in GlobExts})
    /\ listed' = IF specific_files # <<>> THEN listed ELSE Seen(InDir, filesLeft')
    /\ fs' = setup_temp_directory(fs).fs
    /\ log' = <<>>
    /\ pc' = IF setup_temp_directory(fs).raised THEN "raised"
             ELSE IF filesLeft' = <<>> THEN "cleanup" ELSE "loop"
    /\ UNCHANGED <<writers, probs, detected, specific_files, gui, prog, env, scenario, run, dry_run, tree0, csv, dirsLeft, cur, end1>>

\* run: one turn of the loop over media_files
MasterProcessPhoto ==
    /\ prog = "master" /\ pc = "loop" /\ filesLeft # <<>>
    /\ \E partway \in (IF env.full THEN BOOLEAN ELSE {FALSE}) :
          LET r == process_single_photo(fs, Head(filesLeft), TempDir, dry_run, partway)
          IN  /\ fs' = r.fs
              /\ log' = Append(log, r.rec)
    /\ filesLeft' = Tail(filesLeft)
    /\ UNCHANGED <<writers, probs, detected, specific_files, gui, prog, env, scenario, run, dry_run, tree0, csv, pc, dirsLeft, cur, listed, end1>>

\* run: copy_to_final_destination
MasterCopy ==
    /\ prog = "master" /\ pc = "loop" /\ filesLeft = <<>>
    /\ IF dry_run THEN UNCHANGED fs
       ELSE \E order \in Orders(Staged(fs)) :
               fs' = copy_staged(MkDirs(fs, OutDir), order,
                                 {d[2] : d \in SubDirs(fs, OutDir)})
    /\ pc' = "log"
    /\ UNCHANGED <<writers, probs, detected, specific_files, gui, prog, env, scenario, run, dry_run, tree0, csv, dirsLeft, cur, filesLeft, log, listed, end1>>

\* run: write_master_log
MasterWriteLog ==
    /\ prog = "master" /\ pc = "log"
    /\ csv' = write_master_log(csv, log, dry_run)
    /\ pc' = "cleanup"
    /\ UNCHANGED <<writers, probs, detected, specific_files, gui, prog, env, scenario, run, dry_run, tree0, fs, dirsLeft, cur, filesLeft, log, listed, end1>>

\* run: the finally clause, cleanup_temp_directory
MasterCleanup ==
    /\ prog = "master" /\ pc = "cleanup"
    /\ fs' = cleanup_temp_directory(fs, dry_run)
    /\ pc' = "done"
    /\ UNCHANGED <<writers, probs, detected, specific_files, gui, prog, env, scenario, run, dry_run, tree0, csv, dirsLeft, cur, filesLeft, log, listed, end1>>

-----------------------------------------------------------------------------
(* ai_photo_renamer *)

\* "IMG-<date>-WA<4 digits>" holds no underscore: one token
WAToks == {"IMG-20250708-WA0001"}
WADate(tok) == CASE tok = "IMG-20250708-WA0001" -> "20250708"
\* match.group(2).ljust(6, '0')
WATime(tok) == CASE tok = "IMG-20250708-WA0001" -> "000100"

\* datetime.strptime(f"{date_str}_{time_str}", "%Y%m%d_%H%M%S"); NoTS for ValueError
Strptime(d, t) == IF ValidDate(d) /\ ValidTime(t) THEN [d |-> d, t |-> t] ELSE NoTS

Leftmost(S) == CHOOSE i \in S : \A j \in S : i <= j

\* re.search of r"<pre>_(\d{8})_(\d{6})": where the match starts.  Of the tokens
\* in use, the 8-digit ones are DateToks and the 6-digit ones TimeToks.
MatchPrefixed(stem, pre) ==
    {i \in 1..(Len(stem) - 2) :
        stem[i] = pre /\ stem[i + 1] \in DateToks /\ stem[i + 2] \in TimeToks}

\* re.search of r"(\d{8})_(\d{6})"
MatchBare(stem) ==
    {i \in 1..(Len(stem) - 1) : stem[i] \in DateToks /\ stem[i + 1] \in TimeToks}

\* re.search of r"IMG-(\d{8})-WA(\d{4})"
MatchWA(stem) == {i \in 1..Len(stem) : stem[i] \in WAToks}

\* an extraction whose patterns never match
extract_timestamp_never(filename) == NoTS

\* the first pattern that matches and parses wins; NoTS for None
extract_timestamp_from_filename(filename) ==
    LET stem == filename.stem
        try(S, off) == IF S = {} THEN NoTS
                       ELSE LET i == Leftmost(S)
                            IN  Strptime(stem[i + off], stem[i + off + 1])
        a == try(MatchPrefixed(stem, "PXL"), 1)
        b == try(MatchPrefixed(stem, "IMG"), 1)
        c == try(MatchBare(stem), 0)
        d == IF MatchWA(stem) = {} THEN NoTS
             ELSE LET i == Leftmost(MatchWA(stem))
                  IN  Strptime(WADate(stem[i]), WATime(stem[i]))
    IN  IF a # NoTS THEN a ELSE IF b # NoTS THEN b ELSE IF c # NoTS THEN c ELSE d

\* generate_new_filename: the part a primary detection contributes
Simplify(raw) ==
    CASE raw = "excavator digging dirt" -> <<"excavator">>
      [] raw = "brown clay soil" -> <<"clay", "soil">>
      [] raw = "construction site" -> <<"construction", "site">>
      [] raw = "outdoor work area" -> <<"work">>

\* -> [ok, path, fs]: no codec check and no dry-run check in this module
AI_convert_heic_to_jpg(f, heic_path) ==
    LET jpg_path == resolve_collision(f, heic_path.dir, N(heic_path.name.stem, "jpg"))
        x == f.files[heic_path]
    IN  IF ~CanOpen(x) THEN [ok |-> FALSE, path |-> NoPath, fs |-> f]
        ELSE [ok |-> TRUE, path |-> jpg_path, fs |-> Put(f, jpg_path, Converted(x))]

\* the soil type closest to the dominant colour, <<>> for ""; cv2.imread reads
\* JPEG and PNG only
analyze_dominant_color(x) ==
    IF ~x.corrupt /\ x.fmt \in {"jpg", "png"} THEN x.color ELSE <<>>

\* AIPhotoAnalyzer.analyze_photo -> [soil_color, detected_objects]
analyze_photo(f, image_path) ==
    LET x == f.files[image_path]
    IN  [soil_color |-> analyze_dominant_color(x),
         detected_objects |-> IF env.ai /\ CanOpen(x) THEN x.clip ELSE <<>>]

generate_new_filename(f, original_path, analysis, timestamp) ==
    LET dt == IF timestamp # NoTS THEN timestamp ELSE f.files[original_path].mtime
        parts == (IF analysis.soil_color # <<>> THEN <<Head(analysis.soil_color)>> ELSE <<>>)
                 \o (IF analysis.detected_objects # <<>>
                     THEN <<Simplify(Head(analysis.detected_objects))>> ELSE <<>>)
        description == IF parts = <<>> THEN <<"site">> ELSE Join(parts)
    IN  N(date_prefix(dt) \o description, Lower(original_path.name.ext))

RenameResult(original_path, new_path, timestamp, renamed, error) ==
    [original_path |-> original_path, new_path |-> new_path, timestamp |-> timestamp,
     renamed |-> renamed, error |-> error]

\* "while new_path.exists() and new_path != photo_path"
RECURSIVE avoid(_, _, _, _, _, _)
avoid(f, photo_path, dir, stem, ext, i) ==
    LET new_path == P(dir, N(IF i = 0 THEN stem ELSE stem \o <<Num(i)>>, ext))
    IN  IF Exists(f, new_path) /\ new_path # photo_path
        THEN avoid(f, photo_path, dir, stem, ext, i + 1)
        ELSE new_path

\* one turn of the loop of rename_photos_in_folder -> [fs, recs]: the records
\* the turn appends (none when no change is needed)
rename_one(f, photo_path0, dry) ==
    LET conv == IF Lower(photo_path0.name.ext) \in CONVERT_TO_JPG
                THEN AI_convert_heic_to_jpg(f, photo_path0)
                ELSE [ok |-> FALSE, path |-> NoPath, fs |-> f]
        photo_path == IF conv.ok THEN conv.path ELSE photo_path0
        f1 == conv.fs
        timestamp == extract_timestamp_from_filename(photo_path.name)
        analysis == analyze_photo(f1, photo_path)
        new_filename == generate_new_filename(f1, photo_path, analysis, timestamp)
        new_path == avoid(f1, photo_path, photo_path.dir, new_filename.stem,
                          new_filename.ext, 0)
    IN  IF new_path = photo_path THEN [fs |-> f1, recs |-> <<>>]
        ELSE IF dry
        THEN [fs |-> f1,
              recs |-> <<RenameResult(photo_path0, new_path, timestamp, FALSE, "")>>]
        ELSE IF f1.files[photo_path].locked
        THEN [fs |-> f1, recs |-> <<RenameResult(photo_path, NoPath, NoTS, FALSE, "err")>>]
        ELSE LET f2 == Put(Del(f1, photo_path), new_path, f1.files[photo_path])
                 f3 == IF photo_path0 # photo_path /\ ~f2.files[photo_path0].locked
                       THEN Del(f2, photo_path0) ELSE f2
             IN  [fs |-> f3,
                  recs |-> <<RenameResult(photo_path0, new_path, timestamp, TRUE, "")>>]

\* the order of sorted(folders) among the 8-digit names
DateRank(d) ==
    CASE d = "20240115" -> 1 [] d = "20240201" -> 2 [] d = "20241345" -> 3
      [] d = "20250708" -> 4 [] d = "20260301" -> 5

\* sorted(folders)
Sorted(S) == CHOOSE s \in Orders(S) : \A i, j \in 1..Len(s) : i < j => DateRank(s[i]) < DateRank(s[j])

\* main: the date folders, re.match(r'^\d{8}$', name)
RenameStart ==
    /\ prog = "rename" /\ pc = "start"
    /\ dirsLeft' = Sorted({e[2] : e \in {e \in SubDirs(fs, Root) : e[2] \in DateToks}})
    /\ log' = <<>>
    /\ pc' = IF dirsLeft' = <<>> THEN "done" ELSE "folders"
    /\ UNCHANGED <<writers, probs, detected, specific_files, gui, prog, env, scenario, run, dry_run, tree0, fs, csv, cur, filesLeft, listed, end1>>

\* rename_photos_in_folder: the listing of the next folder
RenameEnterFolder ==
    /\ prog = "rename" /\ pc = "folders" /\ dirsLeft # <<>>
    /\ LET folder == Head(dirsLeft)
       IN  /\ dirsLeft' = Tail(dirsLeft)
           /\ cur' = folder
           /\ filesLeft' \in Listing(Root \o <<folder>>,
                                     {p \in FilesIn(fs, Root \o <<folder>>) :
                                         p.name.ext \in GlobExts})
           /\ listed' = Seen(Root \o <<folder>>, filesLeft')
    /\ pc' = "files"
    /\ UNCHANGED <<writers, probs, detected, specific_files, gui, prog, env, scenario, run, dry_run, tree0, fs, csv, log, end1>>

\* rename_photos_in_folder: one turn of the loop, its try/except included
RenameOne ==
    /\ prog = "rename" /\ pc = "files" /\ filesLeft # <<>>
    /\ LET r == rename_one(fs, Head(filesLeft), dry_run)
       IN  /\ fs' = r.fs
           /\ log' = log \o r.recs
    /\ filesLeft' = Tail(filesLeft)
    /\ UNCHANGED <<writers, probs, detected, specific_files, gui, prog, env, scenario, run, dry_run, tree0, csv, pc, dirsLeft, cur, listed, end1>>

\* rename_photos_in_folder returns
RenameLeaveFolder ==
    /\ prog = "rename" /\ pc = "files" /\ filesLeft = <<>>
    /\ pc' = "folders"
    /\ cur' = ""
    /\ UNCHANGED <<writers, probs, detected, specific_files, gui, prog, env, scenario, run, dry_run, tree0, fs, csv, dirsLeft, filesLeft, log, listed, end1>>

\* write_rename_log: open(.., 'w') of root/ai_rename_log.csv
write_rename_log(c, rows) ==
    [j \in (DOMAIN c) \cup {"ai_rename_log"} |-> IF j = "ai_rename_log" THEN rows ELSE c[j]]

\* main: every folder is done; write the log
RenameWriteLog ==
    /\ prog = "rename" /\ pc = "folders" /\ dirsLeft = <<>>
    /\ csv' = write_rename_log(csv, log)
    /\ pc' = "done"
    /\ UNCHANGED <<writers, probs, detected, specific_files, gui, prog, env, scenario, run, dry_run, tree0, fs, dirsLeft, cur, filesLeft, log, listed, end1>>

-----------------------------------------------------------------------------
(* The input trees *)

In(dir, name, x) == [p |-> P(dir, name), x |-> x]

SortInputs ==
    { In(Root, N(<<"IMG", "20240115", "091500">>, "jpg"),
         File("s1", "jpg", NoTS, T2, T2, FALSE, FALSE, FALSE, <<>>, <<>>)),
      In(Root, N(<<"a">>, "jpg"),
         File("s2", "jpg", T1, T2, T3, FALSE, FALSE, FALSE, <<>>, <<>>)),
      In(Root, N(<<"a">>, "heic"),
         File("s3", "heic", NoTS, T1, T2, FALSE, FALSE, FALSE, <<>>, <<>>)),
      In(Root, N(<<"b">>, "HEIC"),
         File("s4", "heic", T1, T2, T2, FALSE, TRUE, FALSE, <<>>, <<>>)),
      In(Root, N(<<"PXL", "20250708", "052126">>, "mp4"),
         File("s5", "mp4", T3, T1, T2, FALSE, FALSE, FALSE, <<>>, <<>>)),
      In(Root, N(<<"z">>, "jpg"),
         File("s6", "jpg", NoTS, T1, T1, TRUE, FALSE, FALSE, <<>>, <<>>)),
      In(Root \o <<"misc">>, N(<<"a">>, "jpg"),
         File("s7", "jpg", T1, T2, T2, FALSE, FALSE, FALSE, <<>>, <<>>)),
      In(Root \o <<"misc">>, N(<<"notes">>, "txt"),
         File("s8", "txt", NoTS, T1, T1, FALSE, FALSE, FALSE, <<>>, <<>>)),
      In(Root \o <<"20240115">>, N(<<"a">>, "jpg"),
         File("s9", "jpg", T1, T1, T1, FALSE, FALSE, FALSE, <<>>, <<>>)),
      In(Root \o <<"20241345">>, N(<<"c">>, "jpg"),
         File("s10", "jpg", BadTS, T1, T2, FALSE, FALSE, FALSE, <<>>, <<>>)),
      In(Root \o <<"misc">>, N(<<"k">>, "jpg"),
         File("s11", "jpg", T1, T1, T1, FALSE, TRUE, FALSE, <<>>, <<>>)),
      In(Root, N(<<"d">>, "heic"),
         File("s12", "heic", NoTS, T1, T2, FALSE, FALSE, TRUE, <<>>, <<>>)),
      In(Root \o <<"@eaDir">>, N(<<"h">>, "jpg"),
         File("s13", "jpg", T1, T1, T1, FALSE, FALSE, FALSE, <<>>, <<>>)),
      In(Root \o <<"held">>, N(<<"p">>, "jpg"),
         File("s14", "jpg", T2, T2, T2, FALSE, FALSE, FALSE, <<>>, <<>>)) }

\* the tree that holds the chosen files, in the directories they need
Tree(S, base) ==
    [dirs |-> base \cup UNION {{SubSeq(i.p.dir, 1, k) : k \in 1..Len(i.p.dir)} : i \in S},
     files |-> [q \in {i.p : i \in S} |-> (CHOOSE i \in S : i.p = q).x]]

Trees(U, base) ==
    {Tree(S, base) : S \in {S \in SUBSET U : /\ Cardinality(S) <= MaxFiles
                                             /\ \A i, j \in S : i.p = j.p => i = j}}

\* clip: the labels of the top min(3, number of candidate labels) scores, best
\* first; the candidate list is never empty (_prepare_tags), so a picture that
\* opens has at least one
MasterInputs ==
    { In(InDir, N(<<"IMG", "20240115", "091500">>, "jpg"),
         File("m1", "jpg", NoTS, T2, T2, FALSE, FALSE, FALSE, <<>>, <<"excavator">>)),
      In(InDir, N(<<"b">>, "jpg"),
         File("m2", "jpg", T1, T2, T3, FALSE, FALSE, FALSE, <<>>, <<"excavator">>)),
      In(InDir, N(<<"c">>, "JPG"),
         File("m3", "jpg", T1, T3, T2, FALSE, FALSE, FALSE, <<>>,
              <<"excavator", "excavator">>)),
      In(InDir, N(<<"d">>, "heic"),
         File("m4", "heic", NoTS, T1, T2, FALSE, FALSE, FALSE,
              <<"green", "red", "yellow", "orange">>, <<"asphalt paving">>)),
      In(InDir, N(<<"e">>, "heic"),
         File("m5", "heic", T1, T2, T2, FALSE, FALSE, FALSE, <<>>, <<"excavator">>)),
      In(InDir, N(<<"PXL", "20250708", "052126">>, "mp4"),
         File("m6", "mp4", T3, T1, T2, FALSE, FALSE, FALSE, <<>>, <<>>)),
      In(InDir, N(<<"g">>, "png"),
         File("m7", "png", T1, T1, T1, FALSE, FALSE, TRUE, <<>>, <<"excavator">>)),
      In(OutDir \o <<"20240115">>, N(<<"20240115", "0915", "excavator">>, "jpg"),
         File("m8", "jpg", T1, T1, T1, FALSE, FALSE, FALSE, <<>>, <<"excavator">>)),
      In(InDir, N(<<"w">>, "jpg"),
         File("m9", "jpg", BadTS, T1, T2, FALSE, FALSE, FALSE,
              <<"red", "blue">>, <<"blue water pipe", "pit lid/riser", "excavator">>)) }

RenameInputs ==
    { In(Root \o <<"20240115">>, N(<<"IMG", "20240115", "091500">>, "jpg"),
         File("r1", "jpg", NoTS, T2, T2, FALSE, FALSE, FALSE, <<>>, <<"excavator digging dirt">>)),
      In(Root \o <<"20240115">>, N(<<"x">>, "jpg"),
         File("r2", "jpg", T3, T1, T1, FALSE, FALSE, FALSE, <<>>, <<"excavator digging dirt">>)),
      In(Root \o <<"20240115">>, N(<<"PXL", "20250708", "052126">>, "mp4"),
         File("r3", "mp4", NoTS, T2, T2, FALSE, FALSE, FALSE, <<>>, <<>>)),
      In(Root \o <<"20240115">>, N(<<"y">>, "heic"),
         File("r4", "heic", T2, T1, T1, FALSE, FALSE, FALSE, <<>>, <<"construction site">>)),
      In(Root \o <<"20240115">>, N(<<"20240115", "0915", "site">>, "jpg"),
         File("r5", "jpg", NoTS, T2, T2, FALSE, FALSE, FALSE, <<>>, <<>>)),
      In(Root \o <<"20240201">>, N(<<"20240201", "1030", "site">>, "jpg"),
         File("r6", "jpg", NoTS, T2, T2, FALSE, FALSE, FALSE, <<>>, <<>>)),
      In(Root \o <<"20240115">>, N(<<"IMG", "20241345", "091500">>, "jpg"),
         File("r7", "jpg", NoTS, T1, T1, FALSE, FALSE, FALSE, <<(<<"brown">>)>>,
              <<"brown clay soil">>)),
      In(Root \o <<"20240115">>, N(<<"IMG-20250708-WA0001">>, "jpg"),
         File("r8", "jpg", NoTS, T1, T1, FALSE, FALSE, FALSE, <<>>, <<"outdoor work area">>)),
      In(Root \o <<"20240115">>, N(<<"q">>, "jpg"),
         File("r9", "jpg", NoTS, T1, T1, FALSE, TRUE, FALSE, <<>>, <<>>)),
      In(Root \o <<"20240115">>, N(<<"PXL", "20250708", "256199">>, "jpg"),
         File("r10", "jpg", NoTS, T1, T1, FALSE, FALSE, FALSE, <<>>, <<>>)) }

NoCsv == [k \in {} |-> <<>>]

\* PhotoProcessorGUI.__init__: the window before the user touches it
NoGui == [start_btn |-> "normal", dropped_paths |-> <<>>, process_folder_var |-> FALSE,
          dry_run_var |-> FALSE, threads |-> 0, after |-> <<>>]

\* full: the volume of the staging directory may run out of space during a run;
\* nocase: Path.glob compares names without regard to case (Windows)
Envs == [heif : BOOLEAN, birth : BOOLEAN, ai : BOOLEAN, target_ext : {"", "jpg", "png"},
         full : BOOLEAN, nocase : BOOLEAN]

\* what each program reads of the platform
EnvsOf(g) ==
    IF g = "sort" THEN {e \in Envs : ~e.ai /\ e.target_ext = "" /\ ~e.full /\ ~e.nocase}
    ELSE IF g = "master" THEN {e \in Envs : ~e.full /\ ~e.nocase}
    ELSE {e \in Envs : e.target_ext = "" /\ ~e.birth /\ ~e.full /\ ~e.nocase}

InputsOf(g) ==
    IF g = "sort" THEN Trees(SortInputs, {Root})
    ELSE IF g = "master" THEN Trees(MasterInputs, {InDir, Cwd})
    ELSE Trees(RenameInputs, {Root})

Init ==
    /\ prog \in {"sort", "master", "rename"}
    /\ env \in EnvsOf(prog)
    /\ scenario \in {"parity", "rerun"}
    /\ run = 1
    /\ dry_run = (scenario = "parity")
    /\ fs \in InputsOf(prog)
    /\ tree0 = [fs |-> fs, csv |-> NoCsv]
    /\ csv = NoCsv
    /\ pc = "start"
    /\ dirsLeft = <<>>
    /\ cur = ""
    /\ filesLeft = <<>>
    /\ log = <<>>
    /\ listed = [k \in {} |-> <<>>]
    /\ end1 = [fs |-> fs, csv |-> NoCsv, log |-> <<>>]
    /\ specific_files = <<>>
    /\ gui = NoGui
    /\ probs = <<>>
    /\ detected = <<>>
    /\ writers = <<>>

\* the first run is over: the second starts, on the input again (parity) or on
\* what the first run left (rerun)
NextRun ==
    /\ pc = "done" /\ run = 1
    /\ run' = 2
    /\ end1' = [fs |-> fs, csv |-> csv, log |-> log]
    /\ dry_run' = FALSE
    /\ IF scenario = "parity"
       THEN fs' = tree0.fs /\ csv' = tree0.csv
       ELSE UNCHANGED <<fs, csv>>
    /\ pc' = "start"
    /\ log' = <<>>
    /\ UNCHANGED <<writers, probs, detected, specific_files, gui, prog, env, scenario, tree0, dirsLeft, cur, filesLeft, listed>>

Next ==
    \/ SortStart
    \/ ConsolidateEnter
    \/ ConsolidateMove
    \/ ConsolidateRemoveFolder
    \/ SortEnumerate
    \/ SortProcessFile
    \/ SortWriteLog
    \/ MasterStart
    \/ MasterProcessPhoto
    \/ MasterCopy
    \/ MasterWriteLog
    \/ MasterCleanup
    \/ RenameStart
    \/ RenameEnterFolder
    \/ RenameOne
    \/ RenameLeaveFolder
    \/ RenameWriteLog
    \/ NextRun

Spec == Init /\ [][Next]_vars

-----------------------------------------------------------------------------
(* master_photo_processor: the GUI (launch_gui, PhotoProcessorGUI) *)

\* The most runs the user starts from the window.
MaxRuns == 2

\* the files and folders the user may drop on the window
Notes == P(InDir, N(<<"notes">>, "txt"))
Dropped ==
    { <<P(InDir, N(<<"b">>, "jpg"))>>,
      <<P(InDir, N(<<"b">>, "jpg")), Notes>>,
      <<Notes>>,
      <<P(InDir, N(<<"gone">>, "jpg")), P(InDir, N(<<"b">>, "jpg"))>>,
      <<P(<<>>, N(<<"in">>, ""))>> }

is_dir(f, p) == p.dir \o <<p.name.stem[1]>> \in f.dirs

\* _on_drop: in folder mode the input folder is set and the selection cleared;
\* otherwise the dropped files, directories left out, become the selection
on_drop ==
    /\ prog = "master"
    /\ \E paths \in Dropped :
          gui' = [gui EXCEPT !.dropped_paths =
                      IF gui.process_folder_var THEN <<>>
                      ELSE SelectSeq(paths, LAMBDA p : ~is_dir(fs, p))]
    /\ UNCHANGED <<writers, probs, detected, specific_files, prog, env, scenario, run, dry_run, tree0, fs, csv, pc,
                   dirsLeft, cur, filesLeft, log, listed, end1>>

\* _start_processing, the command of the start button (a disabled button does
\* not call it): refuses with an error box, or disables the button and starts
\* the background thread with the arguments of the run
start_processing ==
    /\ prog = "master" /\ gui.start_btn = "normal" /\ gui.threads < MaxRuns
    /\ LET process_folder == gui.process_folder_var
           selected_files == IF process_folder THEN <<>>
                             ELSE SelectSeq(gui.dropped_paths, LAMBDA p : Exists(fs, p))
           refused == IF process_folder THEN InDir \notin fs.dirs
                      ELSE selected_files = <<>>
       IN  IF refused
           THEN UNCHANGED <<specific_files, gui, dry_run, pc>>
           ELSE /\ gui' = [gui EXCEPT !.start_btn = "disabled", !.threads = @ + 1]
                /\ specific_files' = selected_files
                /\ dry_run' = gui.dry_run_var
                /\ pc' = "thread"
    /\ UNCHANGED <<writers, probs, detected, prog, env, scenario, run, tree0, fs, csv, dirsLeft, cur, filesLeft, log,
                   listed, end1>>

\* another program removes a selected file before the background thread looks
\* at it
ExternalDelete ==
    /\ prog = "master" /\ pc = "thread"
    /\ \E i \in 1..Len(specific_files) :
          /\ Exists(fs, specific_files[i])
          /\ fs' = Del(fs, specific_files[i])
    /\ UNCHANGED <<writers, probs, detected, specific_files, gui, prog, env, scenario, run, dry_run, tree0, csv, pc,
                   dirsLeft, cur, filesLeft, log, listed, end1>>

\* _run_processor: PhotoProcessor(...) is constructed; processor.run follows
run_processor_construct ==
    /\ prog = "master" /\ pc = "thread"
    /\ pc' = "start"
    /\ UNCHANGED <<writers, probs, detected, specific_files, gui, prog, env, scenario, run, dry_run, tree0, fs, csv,
                   dirsLeft, cur, filesLeft, log, listed, end1>>

\* _run_processor: run has returned "successful > 0"; root.after(0, _finish_run)
run_processor_after ==
    /\ prog = "master" /\ pc = "done" /\ gui.start_btn = "disabled"
    /\ gui' = [gui EXCEPT !.after = Append(@, \E i \in 1..Len(log) : log[i].success)]
    /\ pc' = "exited"
    /\ UNCHANGED <<writers, probs, detected, specific_files, prog, env, scenario, run, dry_run, tree0, fs, csv,
                   dirsLeft, cur, filesLeft, log, listed, end1>>

\* _finish_run, called by the main loop
finish_run ==
    /\ prog = "master" /\ gui.after # <<>>
    /\ gui' = [gui EXCEPT !.start_btn = "normal", !.after = Tail(@)]
    /\ UNCHANGED <<writers, probs, detected, specific_files, prog, env, scenario, run, dry_run, tree0, fs, csv, pc,
                   dirsLeft, cur, filesLeft, log, listed, end1>>

\* the window's files: a picture, a text file, and what an interrupted run left
\* in the staging directory, still open in another program
GuiInputs ==
    { In(InDir, N(<<"b">>, "jpg"),
         File("m2", "jpg", T1, T2, T3, FALSE, FALSE, FALSE, <<>>, <<"excavator">>)),
      In(InDir, N(<<"notes">>, "txt"),
         File("g1", "txt", NoTS, T1, T1, FALSE, FALSE, FALSE, <<>>, <<>>)),
      In(InDir, N(<<"e">>, "heic"),
         File("m5", "heic", T1, T2, T2, FALSE, FALSE, FALSE, <<>>, <<"excavator">>)),
      In(TempDir \o <<"20240115">>, N(<<"20240115", "0915", "excavator">>, "jpg"),
         File("g2", "jpg", T1, T1, T1, FALSE, TRUE, FALSE, <<>>, <<"excavator">>)) }

GuiInit ==
    /\ prog = "master"
    /\ env \in {e \in Envs : e.heif /\ ~e.birth /\ e.target_ext = "" /\ ~e.full /\ ~e.nocase}
    /\ scenario = "rerun"
    /\ run = 1
    /\ dry_run = FALSE
    /\ fs \in Trees(GuiInputs, {InDir, Cwd})
    /\ tree0 = [fs |-> fs, csv |-> NoCsv]
    /\ csv = NoCsv
    /\ pc = "idle"
    /\ dirsLeft = <<>>
    /\ cur = ""
    /\ filesLeft = <<>>
    /\ log = <<>>
    /\ listed = [k \in {} |-> <<>>]
    /\ end1 = [fs |-> fs, csv |-> NoCsv, log |-> <<>>]
    /\ specific_files = <<>>
    /\ gui \in {[NoGui EXCEPT !.process_folder_var = pf, !.dry_run_var = d] :
                   pf \in BOOLEAN, d \in BOOLEAN}
    /\ probs = <<>>
    /\ detected = <<>>
    /\ writers = <<>>

\* the steps of the background thread
Thread ==
    \/ run_processor_construct
    \/ MasterStart
    \/ MasterProcessPhoto
    \/ MasterCopy
    \/ MasterWriteLog
    \/ MasterCleanup
    \/ run_processor_after

GuiNext ==
    \/ on_drop
    \/ start_processing
    \/ ExternalDelete
    \/ Thread
    \/ finish_run

\* the thread, once started, keeps running, and the main loop calls what
\* root.after has queued
GuiSpec == GuiInit /\ [][GuiNext]_vars /\ WF_vars(Thread) /\ WF_vars(finish_run)

-----------------------------------------------------------------------------
(* PhotoProcessor.run on a volume that may fill up *)

FullInit ==
    /\ prog = "master"
    /\ env \in {e \in Envs : e.full /\ e.heif /\ ~e.birth /\ e.target_ext # "" /\ ~e.nocase}
    /\ scenario = "rerun"
    /\ run = 1
    /\ dry_run = FALSE
    /\ fs \in InputsOf(prog)
    /\ tree0 = [fs |-> fs, csv |-> NoCsv]
    /\ csv = NoCsv
    /\ pc = "start"
    /\ dirsLeft = <<>>
    /\ cur = ""
    /\ filesLeft = <<>>
    /\ log = <<>>
    /\ listed = [k \in {} |-> <<>>]
    /\ end1 = [fs |-> fs, csv |-> NoCsv, log |-> <<>>]
    /\ specific_files = <<>>
    /\ gui = NoGui
    /\ probs = <<>>
    /\ detected = <<>>
    /\ writers = <<>>

FullNext ==
    \/ MasterStart
    \/ MasterProcessPhoto
    \/ MasterCopy
    \/ MasterWriteLog
    \/ MasterCleanup
    \/ NextRun

FullSpec == FullInit /\ [][FullNext]_vars

-----------------------------------------------------------------------------
(* The model pass: the labels kept from the classifier's confidences *)

\* the relevance threshold of analyze_with_clip (0.15), in percent
Threshold == 15

\* the candidate labels, in the order they are given to the classifier
Candidates == <<"excavator", "pit lid/riser", "asphalt paving", "blue water pipe">>

\* probs[0]: the confidence of each candidate, in percent; a softmax adds up to
\* 100
Percentages == {<<60, 20, 15, 5>>, <<40, 30, 16, 14>>, <<70, 16, 10, 4>>, <<94, 3, 2, 1>>}
Softmaxes == {[i \in 1..4 |-> d[o[i]]] : d \in Percentages, o \in Orders(1..4)}

\* probs[0].topk(k).indices: the k candidates of highest confidence, best first
topk(p, k) ==
    FirstN(CHOOSE s \in Orders(1..Len(p)) :
               \A i, j \in 1..Len(p) : i < j => p[s[i]] > p[s[j]], k)

\* AIPhotoAnalyzer.analyze_with_clip: of the top 3, the labels above the
\* threshold, each with the confidence it was kept at
analyze_with_clip(p) ==
    LET kept == SelectSeq(topk(p, 3), LAMBDA idx : p[idx] > Threshold)
    IN  [i \in 1..Len(kept) |-> [tag |-> <<Candidates[kept[i]]>>, confidence |-> p[kept[i]]]]

\* analyze_photo_content: clip_tags, the normalised labels of the top
\* min(3, len(construction_categories)), each once
clip_tags(p) ==
    LET top_indices == topk(p, IF Len(Candidates) < 3 THEN Len(Candidates) ELSE 3)
    IN  Dedupe([i \in 1..Len(top_indices) |->
                   [tag |-> NormTag(Candidates[top_indices[i]]),
                    confidence |-> p[top_indices[i]]]], <<>>)

ClipMaster ==
    /\ prog = "master" /\ pc = "clip"
    /\ detected' = clip_tags(probs)
    /\ pc' = "tagged"
    /\ UNCHANGED <<writers, probs, specific_files, gui, prog, env, scenario, run, dry_run, tree0, fs,
                   csv, dirsLeft, cur, filesLeft, log, listed, end1>>

ClipRename ==
    /\ prog = "rename" /\ pc = "clip"
    /\ detected' = analyze_with_clip(probs)
    /\ pc' = "tagged"
    /\ UNCHANGED <<writers, probs, specific_files, gui, prog, env, scenario, run, dry_run, tree0, fs,
                   csv, dirsLeft, cur, filesLeft, log, listed, end1>>

ClipInit ==
    /\ prog \in {"master", "rename"}
    /\ env = [heif |-> TRUE, birth |-> FALSE, ai |-> TRUE, target_ext |-> "", full |-> FALSE,
             nocase |-> FALSE]
    /\ scenario = "rerun"
    /\ run = 1
    /\ dry_run = FALSE
    /\ fs = Tree({}, {})
    /\ tree0 = [fs |-> fs, csv |-> NoCsv]
    /\ csv = NoCsv
    /\ pc = "clip"
    /\ dirsLeft = <<>>
    /\ cur = ""
    /\ filesLeft = <<>>
    /\ log = <<>>
    /\ listed = [k \in {} |-> <<>>]
    /\ end1 = [fs |-> fs, csv |-> NoCsv, log |-> <<>>]
    /\ specific_files = <<>>
    /\ gui = NoGui
    /\ probs \in Softmaxes
    /\ detected = <<>>
    /\ writers = <<>>

ClipNext ==
    \/ ClipMaster
    \/ ClipRename

ClipSpec == ClipInit /\ [][ClipNext]_vars

-----------------------------------------------------------------------------
(* Two runs of sort_media_by_date on one root, interleaved *)

NoWriter == [pc |-> "off", filesLeft |-> <<>>, src |-> NoPath, dst |-> NoPath]

\* main: files = list(iter_media_files(root)) of writer w
RaceEnumerate(w) ==
    /\ writers[w].pc = "start"
    /\ \E files \in Orders(MediaIn(fs, Root)) :
          writers' = [writers EXCEPT ![w] = [@ EXCEPT !.pc = "loop", !.filesLeft = files]]
    /\ UNCHANGED <<probs, detected, specific_files, gui, prog, env, scenario, run, dry_run,
                   tree0, fs, csv, pc, dirsLeft, cur, filesLeft, log, listed, end1>>

\* process_file of writer w, up to and including resolve_collision: the check
RaceResolve(w) ==
    /\ writers[w].pc = "loop" /\ writers[w].filesLeft # <<>>
    /\ LET t == process_file_target(fs, Head(writers[w].filesLeft))
       IN  /\ fs' = t.fs
           /\ writers' = [writers EXCEPT ![w] =
                 IF t.raised \/ t.skip
                 THEN [@ EXCEPT !.filesLeft = Tail(@)]
                 ELSE [@ EXCEPT !.pc = "move", !.src = t.src, !.dst = t.dst]]
    /\ UNCHANGED <<probs, detected, specific_files, gui, prog, env, scenario, run, dry_run,
                   tree0, csv, pc, dirsLeft, cur, filesLeft, log, listed, end1>>

\* process_file of writer w: move_or_log(path, dst, DRY_RUN), the act; what it
\* raises is caught by the loop of main
RaceMove(w) ==
    /\ writers[w].pc = "move"
    /\ fs' = move_or_log(fs, writers[w].src, writers[w].dst, DRY_RUN).fs
    /\ writers' = [writers EXCEPT ![w] =
          [@ EXCEPT !.pc = "loop", !.filesLeft = Tail(@), !.src = NoPath, !.dst = NoPath]]
    /\ UNCHANGED <<probs, detected, specific_files, gui, prog, env, scenario, run, dry_run,
                   tree0, csv, pc, dirsLeft, cur, filesLeft, log, listed, end1>>

\* main: the loop of writer w is over
RaceDone(w) ==
    /\ writers[w].pc = "loop" /\ writers[w].filesLeft = <<>>
    /\ writers' = [writers EXCEPT ![w] = [@ EXCEPT !.pc = "done"]]
    /\ UNCHANGED <<probs, detected, specific_files, gui, prog, env, scenario, run, dry_run,
                   tree0, fs, csv, pc, dirsLeft, cur, filesLeft, log, listed, end1>>

\* the root the two runs share: pictures taken the same day, two of them with
\* the same stem
RaceInputs ==
    { In(Root, N(<<"a">>, "jpg"),
         File("s2", "jpg", T1, T2, T3, FALSE, FALSE, FALSE, <<>>, <<>>)),
      In(Root, N(<<"a">>, "heic"),
         File("k1", "heic", T1, T1, T2, FALSE, FALSE, FALSE, <<>>, <<>>)),
      In(Root, N(<<"c">>, "jpg"),
         File("k2", "jpg", T1, T2, T2, FALSE, FALSE, FALSE, <<>>, <<>>)),
      In(Root \o <<"20240115">>, N(<<"a">>, "jpg"),
         File("k3", "jpg", T1, T1, T1, FALSE, FALSE, FALSE, <<>>, <<>>)) }

RaceInit ==
    /\ prog = "sort"
    /\ env \in {e \in Envs : ~e.birth /\ ~e.ai /\ e.target_ext = "" /\ ~e.full /\ ~e.nocase}
    /\ scenario = "rerun"
    /\ run = 1
    /\ dry_run = FALSE
    /\ fs \in Trees(RaceInputs, {Root})
    /\ tree0 = [fs |-> fs, csv |-> NoCsv]
    /\ csv = NoCsv
    /\ pc = "race"
    /\ dirsLeft = <<>>
    /\ cur = ""
    /\ filesLeft = <<>>
    /\ log = <<>>
    /\ listed = [k \in {} |-> <<>>]
    /\ end1 = [fs |-> fs, csv |-> NoCsv, log |-> <<>>]
    /\ specific_files = <<>>
    /\ gui = NoGui
    /\ probs = <<>>
    /\ detected = <<>>
    /\ writers \in {[w \in 1..2 |-> IF w <= n THEN [NoWriter EXCEPT !.pc = "start"]
                                    ELSE NoWriter] : n \in 1..2}

RaceNext ==
    \E w \in 1..2 :
        \/ RaceEnumerate(w)
        \/ RaceResolve(w)
        \/ RaceMove(w)
        \/ RaceDone(w)

RaceSpec == RaceInit /\ [][RaceNext]_vars

-----------------------------------------------------------------------------
(* PhotoProcessor.run on extensions of any case, on either kind of platform *)

GlobInputs ==
    { In(InDir, N(<<"b">>, "jpg"),
         File("m2", "jpg", T1, T2, T3, FALSE, FALSE, FALSE, <<>>, <<"excavator">>)),
      In(InDir, N(<<"c">>, "JPG"),
         File("m3", "jpg", T1, T3, T2, FALSE, FALSE, FALSE, <<>>,
              <<"excavator", "excavator">>)),
      In(InDir, N(<<"q">>, "Jpg"),
         File("g3", "jpg", T2, T3, T2, FALSE, FALSE, FALSE, <<>>, <<"excavator">>)),
      In(InDir, N(<<"PXL", "20250708", "052126">>, "mp4"),
         File("m6", "mp4", T3, T1, T2, FALSE, FALSE, FALSE, <<>>, <<>>)) }

GlobInit ==
    /\ prog = "master"
    /\ env \in {e \in Envs : e.heif /\ ~e.birth /\ ~e.ai /\ e.target_ext = "" /\ ~e.full}
    /\ scenario \in {"parity", "rerun"}
    /\ run = 1
    /\ dry_run = (scenario = "parity")
    /\ fs \in Trees(GlobInputs, {InDir, Cwd})
    /\ tree0 = [fs |-> fs, csv |-> NoCsv]
    /\ csv = NoCsv
    /\ pc = "start"
    /\ dirsLeft = <<>>
    /\ cur = ""
    /\ filesLeft = <<>>
    /\ log = <<>>
    /\ listed = [k \in {} |-> <<>>]
    /\ end1 = [fs |-> fs, csv |-> NoCsv, log |-> <<>>]
    /\ specific_files = <<>>
    /\ gui = NoGui
    /\ probs = <<>>
    /\ detected = <<>>
    /\ writers = <<>>

GlobNext ==
    \/ MasterStart
    \/ MasterProcessPhoto
    \/ MasterCopy
    \/ MasterWriteLog
    \/ MasterCleanup

GlobSpec == GlobInit /\ [][GlobNext]_vars

-----------------------------------------------------------------------------
(* Properties *)

\* the tree the current run started on
StartTree == IF run = 2 /\ scenario = "rerun" THEN end1.fs ELSE tree0.fs

\* the methods process_file records for a file it has moved
MOVED == {"EXIF", "BIRTH", "MTIME", "EXIF_CONVERTED", "BIRTH_CONVERTED", "MTIME_CONVERTED"}

\* C1 (as the claim states it): while dry-run is in effect no step creates, moves,
\* deletes or modifies a file or directory: the tree, audit files included, stays
\* what it was before the run.
C1_DryRunMutatesNothing ==
    dry_run => (fs = tree0.fs /\ csv = tree0.csv)

\* what a record says of a file: where it was, how it was resolved, where it goes
Planned(r) ==
    IF prog = "sort" THEN <<r.original_path, r.method, r.new_path>>
    ELSE IF prog = "master" THEN <<r.original_path, r.final_path>>
    ELSE <<r.original_path, r.new_path>>

\* the record reports that the live step failed
Failed(r) ==
    IF prog = "sort" THEN r.method = "ERROR"
    ELSE IF prog = "master" THEN ~r.success
    ELSE r.error # ""

\* C2 (as the claim states it): a dry run and a live run over the same input, the
\* directories listed in the same order, log the same sequence of records; the
\* two records of a file agree on its original path and, unless the live step
\* failed, on method and destination.
C2_DryAndLiveLogsAgree ==
    (scenario = "parity" /\ run = 2 /\ pc = "done") =>
        /\ Len(log) = Len(end1.log)
        /\ \A i \in 1..Len(log) :
              /\ log[i].original_path = end1.log[i].original_path
              /\ ~Failed(log[i]) => Planned(log[i]) = Planned(end1.log[i])

\* C3 (as the claim states it): the second of two live runs of
\* sort_media_by_date.main in a row moves no file and removes no folder: it
\* records nothing but skips and errors and leaves every file where it was.
C3_SecondSortRunMovesNothing ==
    (prog = "sort" /\ scenario = "rerun" /\ run = 2) =>
        /\ \A i \in 1..Len(log) : log[i].method \in {"SKIP", "ERROR"}
        /\ \A q \in DOMAIN end1.fs.files :
              Exists(fs, q) /\ fs.files[q] = end1.fs.files[q]

\* the files of the output tree
OutFiles(f) == {q \in DOMAIN f.files : Len(q.dir) >= 1 /\ q.dir[1] = OutDir[1]}

\* C4 (as the claim states it): the second of two live runs of PhotoProcessor.run
\* in a row, on the same input and output directories, adds no file to the
\* output tree.
C4_SecondMasterRunAddsNothing ==
    (prog = "master" /\ scenario = "rerun" /\ run = 2) =>
        OutFiles(fs) = OutFiles(end1.fs)

\* C5 (as the claim states it): a file the first run of the renamer renamed is at
\* its fixed point: the second run, on the same platform, takes the "no change
\* needed" branch for it and so records nothing about it.
C5_RenamedFileIsFixedPoint ==
    (prog = "rename" /\ scenario = "rerun" /\ run = 2) =>
        \A i \in 1..Len(end1.log), j \in 1..Len(log) :
            end1.log[i].renamed => log[j].original_path # end1.log[i].new_path

\* the record is of a file the run has placed at its destination
Placed(r) ==
    IF prog = "sort" THEN r.method \in MOVED \/ (r.method = "CONSOLIDATE" /\ ~dry_run)
    ELSE IF prog = "master" THEN ~dry_run /\ r.success
    ELSE r.renamed

Dest(r) == IF prog = "master" THEN r.final_path ELSE r.new_path

\* C6: within one run the destinations of the files placed are pairwise
\* distinct, and no placement lands on a path that holds another file: every
\* file the run started with (the staging directory apart) is still in the tree.
C6_DestinationsAreUnique ==
    /\ \A i, j \in 1..Len(log) :
          (i < j /\ Placed(log[i]) /\ Placed(log[j])) => Dest(log[i]) # Dest(log[j])
    /\ \A q \in DOMAIN StartTree.files :
          q.dir[1] # TempDir[1] =>
              \E p \in DOMAIN fs.files : fs.files[p].id = StartTree.files[q].id

\* C6, its case: two photos of one live master run compose to
\* 20240115_0915_excavator.jpg; the first is staged under it, the second under
\* 20240115_0915_excavator_1.jpg
C6_Witness ==
    /\ prog = "master" /\ ~dry_run
    /\ \E i, j \in 1..Len(log) :
          /\ i < j /\ log[i].success /\ log[j].success
          /\ log[i].final_path.dir = log[j].final_path.dir
          /\ log[i].final_path.name = N(<<"20240115", "0915", "excavator">>, "jpg")
          /\ log[j].final_path.name = N(<<"20240115", "0915", "excavator", "1">>, "jpg")

\* the conversion of the file of record r, in the tree the first run started
\* on, failed: convert_heic_to_jpg returned None or convert_image_format False
ConversionFailed(r) ==
    LET p == r.original_path
        x == tree0.fs.files[p]
        heic == Lower(p.name.ext) \in CONVERT_TO_JPG
    IN  IF prog = "sort"
        THEN heic /\ p.dir = Root /\ r.method \in {"EXIF", "BIRTH", "MTIME", "ERROR"}
        ELSE IF prog = "master"
        THEN ~dry_run /\ ((heic /\ (~env.heif \/ ~CanOpen(x))) \/ ~r.success)
        ELSE heic /\ ~CanOpen(x)

\* where the content of the file of record r is after its processing
Whereabouts(r) ==
    IF prog = "sort" THEN (IF r.method = "ERROR" THEN r.original_path ELSE r.new_path)
    ELSE IF prog = "master" THEN r.original_path
    ELSE (IF r.renamed THEN r.new_path ELSE r.original_path)

PatternNamed(name) ==
    /\ Len(name.stem) = 3
    /\ name.stem[1] \in {"IMG", "PXL"}
    /\ ValidDate(name.stem[2]) /\ ValidTime(name.stem[3])

\* the time the name of a PatternNamed file gives
NameTime(name) == [d |-> name.stem[2], t |-> name.stem[3]]

\* the birth-time where the platform has one, else the modify-time
BirthOrMtime(x) == IF env.birth THEN x.birth ELSE x.mtime

\* the DateTimeOriginal of a readable still image when it parses, else the
\* birth-time or modify-time
MetadataTime(name, x) ==
    IF /\ Lower(name.ext) \in {"jpg", "jpeg", "png"}
       /\ ~x.corrupt /\ x.exif # NoTS /\ x.exif # BadTS
    THEN x.exif ELSE BirthOrMtime(x)

\* C8 (amended): only ai_photo_renamer gives the name precedence: it resolves a
\* pattern-named file to the time in its name and prefixes the new name with
\* it, whatever the modify-time.  sort_media_by_date and PhotoProcessor never
\* read the name: they resolve the file from DateTimeOriginal, else birth-time
\* or modify-time, and file it under that date.
C8_PatternPrecedenceInRenamerOnly ==
    run = 1 =>
        \A i \in 1..Len(log) :
            LET r == log[i]
                p == r.original_path
                x == tree0.fs.files[p]
            IN  (p \in DOMAIN tree0.fs.files /\ PatternNamed(p.name) /\ ~Failed(r)) =>
                    IF prog = "rename"
                    THEN /\ r.timestamp = NameTime(p.name)
                         /\ SubSeq(r.new_path.name.stem, 1, 2) = date_prefix(NameTime(p.name))
                    ELSE IF prog = "sort"
                    THEN r.method \in MOVED =>
                            /\ r.timestamp_used = MetadataTime(p.name, x)
                            /\ r.new_path.dir = Root \o <<MetadataTime(p.name, x).d>>
                    ELSE /\ r.timestamp = MetadataTime(p.name, x)
                         /\ r.final_path.dir = TempDir \o <<MetadataTime(p.name, x).d>>
                         /\ SubSeq(r.final_path.name.stem, 1, 2)
                                = date_prefix(MetadataTime(p.name, x))

\* C8, its case: the renamer has resolved IMG_20240115_091500.jpg, modified on
\* 2024-02-01, to 2024-01-15 09:15 and named it 20240115_0915_...
C8_Witness ==
    /\ prog = "rename" /\ run = 1
    /\ \E i \in 1..Len(log) :
          /\ log[i].original_path.name = N(<<"IMG", "20240115", "091500">>, "jpg")
          /\ tree0.fs.files[log[i].original_path].mtime = T2
          /\ log[i].timestamp = T1
          /\ SubSeq(log[i].new_path.name.stem, 1, 2) = <<"20240115", "0915">>

\* C8 (as the claim states it): in every pipeline a pattern-named file resolves
\* to the time in its name.
C8_PatternPrecedenceEverywhere ==
    run = 1 =>
        \A i \in 1..Len(log) :
            LET r == log[i]
                p == r.original_path
            IN  (p \in DOMAIN tree0.fs.files /\ PatternNamed(p.name) /\ ~Failed(r)) =>
                    IF prog = "sort"
                    THEN r.method \in MOVED =>
                            /\ r.timestamp_used = NameTime(p.name)
                            /\ r.new_path.dir = Root \o <<NameTime(p.name).d>>
                    ELSE r.timestamp = NameTime(p.name)

\* C9 (as the claim states it): sort_media_by_date resolves a still image of the
\* root to its DateTimeOriginal when that is readable and parses, else to its
\* birth-time where the platform has one, else to its modify-time, and the method
\* recorded names that source.
C9_FallbackChainOfTheFile ==
    (prog = "sort" /\ run = 1) =>
        \A i \in 1..Len(log) :
            LET r == log[i]
                p == r.original_path
                x == tree0.fs.files[p]
                usable == CanOpen(x) /\ x.exif # NoTS /\ x.exif # BadTS
            IN  (/\ p \in DOMAIN tree0.fs.files /\ p.dir = Root
                 /\ Lower(p.name.ext) \in IMAGE_EXT /\ r.method \in MOVED) =>
                    IF usable
                    THEN r.timestamp_used = x.exif /\ r.method \in {"EXIF", "EXIF_CONVERTED"}
                    ELSE IF env.birth
                    THEN r.timestamp_used = x.birth /\ r.method \in {"BIRTH", "BIRTH_CONVERTED"}
                    ELSE r.timestamp_used = x.mtime /\ r.method \in {"MTIME", "MTIME_CONVERTED"}

\* C10 (amended): sort_media_by_date and PhotoProcessor resolve a video from its
\* birth-time or modify-time only, and sort records BIRTH or MTIME for it; the
\* renamer treats a video as it treats an image: a pattern in its name gives the
\* timestamp.
C10_VideosFromFileTimesExceptRenamer ==
    run = 1 =>
        \A i \in 1..Len(log) :
            LET r == log[i]
                p == r.original_path
                x == tree0.fs.files[p]
            IN  (p \in DOMAIN tree0.fs.files /\ Lower(p.name.ext) \in VIDEO_EXT /\ ~Failed(r)) =>
                    IF prog = "sort"
                    THEN r.method \in {"BIRTH", "MTIME"} /\ r.timestamp_used = BirthOrMtime(x)
                    ELSE IF prog = "master"
                    THEN r.timestamp = BirthOrMtime(x)
                    ELSE PatternNamed(p.name) => r.timestamp = NameTime(p.name)

\* C10, its case: PhotoProcessor has resolved PXL_20250708_052126.mp4, whose
\* name and embedded creation time both say 2025-07-08, from its file times
C10_Witness ==
    /\ prog = "master" /\ run = 1
    /\ \E i \in 1..Len(log) :
          /\ log[i].original_path = P(InDir, N(<<"PXL", "20250708", "052126">>, "mp4"))
          /\ log[i].success
          /\ log[i].timestamp \in {T1, T2}

\* C10 (as the claim states it): in every pipeline a video resolves from its
\* birth-time or modify-time, never from its name.
C10_VideosFromFileTimesOnly ==
    run = 1 =>
        \A i \in 1..Len(log) :
            LET r == log[i]
                p == r.original_path
                x == tree0.fs.files[p]
            IN  (p \in DOMAIN tree0.fs.files /\ Lower(p.name.ext) \in VIDEO_EXT /\ ~Failed(r)) =>
                    IF prog = "sort" THEN r.timestamp_used \in {x.birth, x.mtime}
                    ELSE IF prog = "master" THEN r.timestamp \in {x.birth, x.mtime}
                    ELSE r.timestamp = NoTS

-----------------------------------------------------------------------------
(* Phase 1 of sort_media_by_date *)

\* Phase 1 of the current run is over and Phase 2 has not listed the root yet
Phase1Done == prog = "sort" /\ pc = "phase1" /\ dirsLeft = <<>>

\* the name is eight digits that read as a calendar date
NamesADate(name) == name \in DateToks /\ ValidDate(name)

\* the top-level folders of tree t whose name is not a valid calendar date
InvalidFolders(t) == {e \in SubDirs(t, Root) : ~NamesADate(e[2])}

\* the records of the log about the file or folder at path q
RecordsOf(q) == {i \in 1..Len(log) : log[i].original_path = q}

\* the file that was at q when the run started is at p now
MovedTo(q, p) ==
    /\ ~Exists(fs, q)
    /\ Exists(fs, p) /\ fs.files[p] = StartTree.files[q]

\* the file that was at q when the run started is still there
Untouched(q) == Exists(fs, q) /\ fs.files[q] = StartTree.files[q]

\* C11 (amended): after Phase 1 of a live run, every eligible media file that was
\* directly in a top-level folder whose name is neither a valid date nor hidden
\* ('.'-prefixed or @eaDir) has exactly one record: CONSOLIDATE, the file now in
\* the batch root under a name that was free, or, when its move raised, ERROR,
\* the file still in its folder.  Hidden folders are not entered: their files
\* stay and have no record.  No other CONSOLIDATE record exists.
C11_InvalidFoldersAreDrained ==
    (Phase1Done /\ ~dry_run) =>
        /\ \A e \in InvalidFolders(StartTree) : \A q \in MediaIn(StartTree, e) :
              IF is_hidden(e[2]) THEN RecordsOf(q) = {} /\ Untouched(q)
              ELSE /\ Cardinality(RecordsOf(q)) = 1
                   /\ \A i \in RecordsOf(q) :
                         IF StartTree.files[q].locked
                         THEN log[i].method = "ERROR" /\ Untouched(q)
                         ELSE /\ log[i].method = "CONSOLIDATE"
                              /\ log[i].new_path.dir = Root
                              /\ ~Exists(StartTree, log[i].new_path)
                              /\ MovedTo(q, log[i].new_path)
        /\ \A i \in 1..Len(log) :
              log[i].method = "CONSOLIDATE" =>
                  \E e \in InvalidFolders(StartTree) :
                      ~is_hidden(e[2]) /\ log[i].original_path \in MediaIn(StartTree, e)

\* C11, its case: the 8-digit folder 20241345, not a date, has been drained into
\* the root while the hidden folder @eaDir kept its file
C11_Witness ==
    /\ Phase1Done /\ ~dry_run /\ run = 1
    /\ \E i \in 1..Len(log) :
          /\ log[i].method = "CONSOLIDATE"
          /\ log[i].original_path.dir = Root \o <<"20241345">>
          /\ MovedTo(log[i].original_path, log[i].new_path)
    /\ \E q \in MediaIn(fs, Root \o <<"@eaDir">>) : Untouched(q)

\* C11 (as the claim states it): after Phase 1 of a live run, every eligible
\* media file that was directly in a top-level folder whose name is not a valid
\* date, whatever the folder is called otherwise, is in the batch root under a
\* name that was free, with exactly one CONSOLIDATE record.
C11_EveryInvalidFolderIsDrained ==
    (Phase1Done /\ ~dry_run) =>
        \A e \in InvalidFolders(StartTree) : \A q \in MediaIn(StartTree, e) :
            /\ Cardinality(RecordsOf(q)) = 1
            /\ \A i \in RecordsOf(q) :
                  /\ log[i].method = "CONSOLIDATE"
                  /\ log[i].new_path.dir = Root
                  /\ MovedTo(q, log[i].new_path)

\* the folders Phase 1 enters: top-level, not date-named, not hidden
Entered(t) == {e \in InvalidFolders(t) : ~is_hidden(e[2])}

\* the path a record gives for folder e
FolderPath(e) == P(e, NoName)

\* C12: after Phase 1 of a live run, a folder Phase 1 entered is gone, with
\* exactly one REMOVE_FOLDER record, if and only if it held nothing once drained
\* and could be removed; a folder that still holds a file or a directory, or that
\* cannot be removed, is still there, and the log has no record about it, ERROR
\* or other.
C12_FolderRemovedIffEmpty ==
    (Phase1Done /\ ~dry_run) =>
        \A e \in Entered(StartTree) :
            LET removed == e \notin fs.dirs
                holds == {p \in DOMAIN fs.files : p.dir = e}
                         \cup {d \in fs.dirs : Len(d) = 3 /\ SubSeq(d, 1, 2) = e}
            IN  /\ removed <=> (holds = {} /\ ~rmdir_raises(e))
                /\ \A i \in RecordsOf(FolderPath(e)) : log[i].method = "REMOVE_FOLDER"
                /\ Cardinality(RecordsOf(FolderPath(e))) = IF removed THEN 1 ELSE 0

\* C12, its case: Phase 1 of a live run has drained two folders; one is gone and
\* has its REMOVE_FOLDER record, the other still holds an entry and was kept
\* without a record
C12_Witness ==
    /\ Phase1Done /\ ~dry_run /\ run = 1
    /\ \E e \in Entered(StartTree) :
          e \notin fs.dirs /\ RecordsOf(FolderPath(e)) # {}
    /\ \E e \in Entered(StartTree) :
          /\ e \in fs.dirs /\ RecordsOf(FolderPath(e)) = {}
          /\ \E p \in DOMAIN fs.files : p.dir = e

\* the current run of the sort is in Phase 1
InPhase1 == prog = "sort" /\ pc \in {"phase1", "drain"}

\* the top-level folders of tree t named by a valid calendar date
DateFolders(t) == {e \in SubDirs(t, Root) : NamesADate(e[2])}

\* path q is in folder e or below it
Under(q, e) == Len(q.dir) >= Len(e) /\ SubSeq(q.dir, 1, Len(e)) = e

\* C13: throughout Phase 1, dry or live, every valid YYYYMMDD top-level folder is
\* still there and holds exactly the files it held when the run started, each
\* unchanged, and the log has no record of a file in such a folder nor of the
\* folder itself.
C13_Phase1LeavesDateFoldersAlone ==
    InPhase1 =>
        \A e \in DateFolders(StartTree) :
            /\ e \in fs.dirs
            /\ {q \in DOMAIN fs.files : Under(q, e)} = {q \in DOMAIN StartTree.files : Under(q, e)}
            /\ \A q \in DOMAIN StartTree.files : Under(q, e) => Untouched(q)
            /\ \A i \in 1..Len(log) :
                  /\ ~Under(log[i].original_path, e)
                  /\ log[i].new_path # NoPath => ~Under(log[i].new_path, e)

\* C13, its case: Phase 1 of a live run is over, it has moved a file out of an
\* invalid folder, and the tree the run started on had a file in a valid date folder
C13_Witness ==
    /\ Phase1Done /\ ~dry_run /\ run = 1
    /\ \E i \in 1..Len(log) : log[i].method = "CONSOLIDATE"
    /\ \E e \in DateFolders(StartTree) : \E q \in DOMAIN StartTree.files : q.dir = e

-----------------------------------------------------------------------------
(* The whole run of sort_media_by_date *)

\* a live run of the sort, started on the input tree, is over and none of its
\* records is an ERROR
CleanLiveSort ==
    /\ prog = "sort" /\ pc = "done" /\ ~dry_run
    /\ (scenario = "rerun" => run = 1)
    /\ \A i \in 1..Len(log) : log[i].method # "ERROR"

\* the eligible media files that started loose in the root or directly in a
\* top-level folder that is not date-named
Loose(t) == MediaIn(t, Root) \cup UNION {MediaIn(t, e) : e \in InvalidFolders(t)}

\* where the picture of the file that started at q is now
CopiesOf(q) == {p \in DOMAIN fs.files : fs.files[p].id = StartTree.files[q].id}

InDateFolder(p) == Len(p.dir) = 2 /\ p.dir[1] = Root[1] /\ NamesADate(p.dir[2])

\* C14 (amended): after a live run with no ERROR record, of the eligible media
\* files that started loose in the root or directly in a non-date top-level
\* folder: a file of a hidden folder is where it was; a zero-byte file is in the
\* root, skipped; every other file has its picture in exactly one valid date
\* folder, and outside the date folders only as the HEIC original of a
\* conversion, left in the root at its old path because it could not be deleted.
C14_NonEmptyFilesEndInOneDateFolder ==
    CleanLiveSort =>
        \A q \in Loose(StartTree) :
            LET x == StartTree.files[q]
            IN  IF q.dir # Root /\ is_hidden(q.dir[2]) THEN Untouched(q)
                ELSE IF x.empty
                THEN \A p \in CopiesOf(q) : p.dir = Root /\ fs.files[p] = x
                ELSE /\ Cardinality({p \in CopiesOf(q) : InDateFolder(p)}) = 1
                     /\ \A p \in CopiesOf(q) :
                           ~InDateFolder(p) =>
                               /\ p = q /\ q.dir = Root /\ fs.files[p] = x
                               /\ Lower(q.name.ext) \in CONVERT_TO_JPG /\ x.locked
                               /\ \E c \in CopiesOf(q) :
                                     InDateFolder(c) /\ fs.files[c].fmt = "jpg"

\* C14, its case: a live run without ERROR records is over; a file that started
\* in an invalid folder and a file that started loose in the root are now in
\* date folders
C14_Witness ==
    /\ CleanLiveSort
    /\ \E q \in MediaIn(StartTree, Root) :
          ~StartTree.files[q].empty /\ \E p \in CopiesOf(q) : InDateFolder(p)
    /\ \E e \in Entered(StartTree) : \E q \in MediaIn(StartTree, e) :
          ~Exists(fs, q) /\ \E p \in CopiesOf(q) : InDateFolder(p)

\* C14 (as the claim states it): after a live run in which no move failed, every
\* eligible media file that started loose in the root or directly in a non-date
\* top-level folder is in exactly one valid date folder, and none is in the root
\* or in a non-date folder.
C14_EveryFileEndsInOneDateFolder ==
    CleanLiveSort =>
        \A q \in Loose(StartTree) :
            /\ Cardinality({p \in CopiesOf(q) : InDateFolder(p)}) = 1
            /\ \A p \in CopiesOf(q) : InDateFolder(p)

-----------------------------------------------------------------------------
(* resolve_collision *)

\* the file names in use in tree f
NamesOf(f) == {p.name : p \in DOMAIN f.files}

\* directory/<stem>_<k><ext>
Suffixed(d, n, k) == P(d, N(n.stem \o <<Num(k)>>, n.ext))

-----------------------------------------------------------------------------
(* The tags and the file name of master_photo_processor *)

\* the files the loop of a master run may analyse at its next turn: the file
\* the turn is given and the JPGs so far converted into the staging directory
Analysable ==
    IF prog = "master" /\ pc = "loop" /\ filesLeft # <<>>
    THEN {Head(filesLeft)} \cup FilesIn(fs, TempDir) ELSE {}

\* the place of a colour label in the order yellow, orange, blue, green, red
BandRank(tag) ==
    CASE tag[1] = "yellow" -> 1 [] tag[1] = "orange" -> 2 [] tag[1] = "blue" -> 3
      [] tag[1] = "green" -> 4 [] tag[1] = "red" -> 5

\* C16: for every media file of every tree a master run reaches, the classifier
\* loaded or not, the picture readable or not, analyze_photo_content returns one
\* to three labels, no label twice, every colour label before every label of
\* the classifier, and the colour labels in the order yellow, orange, blue,
\* green, red.
C16_TagListIsWellFormed ==
    \A p \in Analysable :
        LET tags == analyze_photo_content(fs, p)
            isColor(t) == \E b \in Range(Bands) :
                             /\ t = BandTag(b)
                             /\ \E i \in 1..Len(fs.files[p].color) : fs.files[p].color[i] = b
        IN  /\ Len(tags) \in 1..3
            /\ \A i, j \in 1..Len(tags) : i < j =>
                  /\ tags[i] # tags[j]
                  /\ isColor(tags[j]) => isColor(tags[i])
                  /\ (isColor(tags[i]) /\ isColor(tags[j])) =>
                        BandRank(tags[i]) < BandRank(tags[j])

\* C16, its case: a live master run, the classifier loaded, has staged a photo
\* whose pixels show red and blue and whose top labels include the colour label
\* of blue: its three tags are blue_water_pipe, red_electrical_marker and the
\* first other label of the classifier
C16_Witness ==
    /\ prog = "master" /\ env.ai /\ ~dry_run
    /\ \E i \in 1..Len(log) :
          /\ log[i].success
          /\ Exists(fs, log[i].original_path)
          /\ analyze_photo_content(fs, log[i].original_path) =
                <<BandTag("blue"), BandTag("red"), <<"pit", "lid", "riser">> >>
          /\ log[i].final_path.name.stem =
                date_prefix(log[i].timestamp)
                   \o BandTag("blue") \o BandTag("red") \o <<"pit", "lid", "riser">>

\* the fixed fallback label
FallbackTags == <<(<<"construction">>)>>

\* the classifier gives nothing for content x: it is not loaded, or opening the
\* picture raises
ClassifierUnavailable(x) == ~env.ai \/ ~CanOpen(x)

\* the record's file name is <date>_<time>_construction, a counter possibly added
NamedByFallback(r) ==
    LET stem == r.final_path.name.stem
        base == date_prefix(r.timestamp) \o <<"construction">>
    IN  stem = base \/ \E k \in 1..8 : stem = base \o <<Num(k)>>

\* the records of a master run about a picture without colour band for which the
\* classifier is unavailable
Unclassified ==
    IF prog # "master" THEN {}
    ELSE {i \in 1..Len(log) :
             LET x == StartTree.files[log[i].original_path]
             IN  x.color = <<>> /\ ClassifierUnavailable(x)}

\* C17 (amended): when the classifier is unavailable for a file and the colour
\* pass yields no label, analyze_photo_content returns exactly the fallback
\* label; the file's record is marked analyzed, and it is a success with an empty
\* error, named by the fallback label, unless the conversion of the image to a
\* configured target format failed in a live run, the only failure such a file
\* can have.
C17_FallbackLabelAndNoAnalysisError ==
    /\ \A p \in Analysable :
          (ClassifierUnavailable(fs.files[p]) /\ color_tags(fs.files[p]) = <<>>) =>
              analyze_photo_content(fs, p) = FallbackTags
    /\ \A i \in Unclassified :
          LET r == log[i]
          IN  /\ r.analyzed
              /\ r.success => (r.error = "" /\ NamedByFallback(r))
              /\ ~r.success =>
                    /\ env.target_ext # "" /\ ~dry_run
                    /\ Lower(r.original_path.name.ext) \in IMAGE_EXT

\* C17, its case: a master run without classifier has recorded a readable
\* picture without colour band as a success named <date>_<time>_construction
C17_Witness ==
    /\ prog = "master" /\ ~env.ai
    /\ \E i \in Unclassified :
          /\ CanOpen(StartTree.files[log[i].original_path])
          /\ log[i].success /\ log[i].error = "" /\ NamedByFallback(log[i])

\* C17 (as the claim states it): when the classifier is unavailable and the
\* colour pass yields no label, the file's record is a success with an empty
\* error, its tag the fallback label.
C17_UnclassifiedFileAlwaysSucceeds ==
    \A i \in Unclassified :
        log[i].success /\ log[i].error = "" /\ NamedByFallback(log[i])

\* the extension the claim gives the file name of source p
ClaimedExt(p) ==
    LET src == Lower(p.name.ext)
    IN  IF env.target_ext \in {"jpg", "png"} /\ src \in {"jpg", "jpeg", "png", "heic", "heif"}
        THEN env.target_ext
        ELSE IF src \in {"heic", "heif"} THEN "jpg"
        ELSE src

\* C18: for every media file p of a master run, the timestamp ts resolved for it
\* and the tags t1..tk (1 <= k <= 3) of its analysis, generate_descriptive_filename returns
\* <YYYYMMDD>_<HHmm>_<t1>.._<tk><ext> with the date and time of ts and <ext> the
\* configured target extension when one is configured and p is an image, else
\* jpg for a .heic/.heif source, else the lower-cased extension of p; a video
\* never gets the target extension.
C18_DescriptiveFilename ==
    \A p \in Analysable :
        LET ts == get_file_timestamp(fs, p).ts
            tags == analyze_photo_content(fs, p)
            name == generate_descriptive_filename(p, ts, tags)
            k == Len(tags)
        IN  /\ name.stem = <<ts.d, HM(ts.t)>> \o
                           (IF k = 1 THEN tags[1]
                            ELSE IF k = 2 THEN tags[1] \o tags[2]
                            ELSE tags[1] \o tags[2] \o tags[3])
            /\ name.ext = ClaimedExt(p)
            /\ Lower(p.name.ext) \in {"mov", "mp4"} => name.ext = Lower(p.name.ext)

\* C18, its case: a live master run configured for png has staged a .JPG photo
\* as <date>_<time>_<tags>.png and a video under its own extension
C18_Witness ==
    /\ prog = "master" /\ ~dry_run /\ env.target_ext = "png"
    /\ \E i, j \in 1..Len(log) :
          /\ log[i].success /\ log[j].success
          /\ log[i].original_path.name.ext = "JPG" /\ log[i].final_path.name.ext = "png"
          /\ log[i].final_path.name.stem[1] = log[i].timestamp.d
          /\ log[j].original_path.name.ext = "mp4" /\ log[j].final_path.name.ext = "mp4"

-----------------------------------------------------------------------------
(* The per-file loops *)

\* the original paths of the records of s, in order
PathsOf(s) == [i \in 1..Len(s) |-> s[i].original_path]

\* the per-file loop of the run has started; order: the list it was given
\* (for the sort, that of the first run, whose listing is remembered)
LoopOrder ==
    IF prog = "master" /\ pc \in {"loop", "log"} /\ InDir \in DOMAIN listed
    THEN listed[InDir]
    ELSE IF prog = "sort" /\ run = 1 /\ pc \in {"phase2", "done"} THEN listed[Root]
    ELSE <<>>

\* the records the per-file loop has appended so far
LoopRecords ==
    LET n == Len(LoopOrder) - Len(filesLeft)
    IN  IF LoopOrder = <<>> \/ Len(log) < n THEN <<>>
        ELSE SubSeq(log, Len(log) - n + 1, Len(log))

\* a step of the processing of the file of record r failed in this live run: its
\* HEIC conversion returned None, or an exception left the record failed
StepFailed(r) ==
    LET p == r.original_path
        x == StartTree.files[p]
    IN  \/ Failed(r)
        \/ /\ Lower(p.name.ext) \in CONVERT_TO_JPG /\ ~x.empty
           /\ ~(prog = "master" /\ dry_run)
           /\ ~env.heif \/ ~CanOpen(x)

\* C19 (as the claim states it): the per-file loop of the sort and of the master
\* pipeline appends exactly one record per file of its list, in the order of the
\* list, whatever happened to the files before; and a file of which a step
\* failed has a failure record (ERROR, or success false with a non-empty error),
\* every other file a record that is none.
C19_OneRecordPerFileAndFailuresRecorded ==
    (prog \in {"sort", "master"} /\ LoopOrder # <<>>) =>
        /\ PathsOf(LoopRecords) \o filesLeft = LoopOrder
        /\ \A i \in 1..Len(LoopRecords) :
              LET r == LoopRecords[i]
              IN  /\ StepFailed(r) => Failed(r)
                  /\ prog = "master" => (r.success <=> r.error = "")

-----------------------------------------------------------------------------
(* The method tags of sort_media_by_date *)

\* the records the sort pipeline holds or has written to sort_log.csv
SortRecords ==
    IF prog # "sort" THEN {}
    ELSE Range(log) \cup (IF "sort_log" \in DOMAIN csv THEN Range(csv["sort_log"]) ELSE {})

\* the enumeration of the claim; "PATTERN" stands for its embedded-pattern tag
EightMethods ==
    {"PATTERN", "EXIF", "BIRTH", "MTIME", "CONSOLIDATE", "REMOVE_FOLDER", "ERROR", "SKIP"}

-----------------------------------------------------------------------------
(* The audit files across runs *)

\* s is the beginning of t
IsPrefix(s, t) == Len(s) <= Len(t) /\ SubSeq(t, 1, Len(s)) = s

\* C21 (as the claim states it): once the first of two live runs has written its
\* records to the audit file, the second run, on the same directories, neither
\* removes nor rewrites them: the file keeps them at its beginning, and once the
\* second run has written its log the file holds the records of both runs in
\* order.
C21_AuditFileIsAppendOnly ==
    (scenario = "rerun" /\ run = 2) =>
        \A k \in DOMAIN end1.csv :
            /\ k \in DOMAIN csv
            /\ IsPrefix(end1.csv[k], csv[k])
            /\ pc = "done" => csv[k] = end1.csv[k] \o log

\* C22 (as the claim states it): when run is given an explicit selection of
\* files, every selected path, also one that no longer exists or whose extension
\* is not a media extension, has its audit record: when run ends, the records of
\* the run are one per selected path, in the order of the selection.
C22_OneRecordPerSelectedPath ==
    (prog = "master" /\ specific_files # <<>> /\ pc = "done") =>
        /\ Len(log) = Len(specific_files)
        /\ \A i \in 1..Len(log) : log[i].original_path = specific_files[i]

\* the encoding an extension names
FormatOf(ext) == IF Lower(ext) \in {"jpg", "jpeg"} THEN "jpg" ELSE Lower(ext)

\* C23 (as the claim states it): step 6 of process_single_photo converts whenever
\* the destination extension differs from that of the file it places and copies
\* bytes only when they are equal, so that, the input files being encoded as
\* they are named, every file staged by a live run is encoded as its name says:
\* no HEIC content is staged under a name that ends in .jpg.
C23_StagedFileIsEncodedAsNamed ==
    (prog = "master" /\ ~dry_run /\ pc = "loop") =>
        \A q \in Staged(fs) : fs.files[q].fmt = FormatOf(q.name.ext)

\* the files a live master run has added to the output tree
NewOutFiles == OutFiles(fs) \ DOMAIN StartTree.files

\* C24 (as the claim states it): a conversion that fails after it has created
\* its destination leaves no partial file behind: while the loop runs, every
\* file of the staging date folders is the final path of a record that reports
\* success, and after copy_to_final_destination the output tree has gained as
\* many files as there are such records, none for a failed record.
C24_NoPartialDestinationIsRetained ==
    (prog = "master" /\ ~dry_run) =>
        /\ pc = "loop" =>
              \A q \in Staged(fs) :
                  \E i \in 1..Len(log) : log[i].success /\ log[i].final_path = q
        /\ pc \in {"log", "cleanup", "done"} =>
              Cardinality(NewOutFiles) = Cardinality({i \in 1..Len(log) : log[i].success})

\* the HEIC files of the tree the current run started on
HeicOriginals == {q \in DOMAIN StartTree.files : StartTree.files[q].fmt = "heic"}

\* where the picture id is held, in HEIC and as a complete JPG
HeicsOf(id) == {p \in DOMAIN fs.files : fs.files[p].id = id /\ fs.files[p].fmt = "heic"}
JpgsOf(id) ==
    {p \in DOMAIN fs.files : /\ fs.files[p].id = id /\ fs.files[p].fmt = "jpg"
                             /\ ~fs.files[p].corrupt /\ ~fs.files[p].empty}

\* C25: in the sort pipeline and in the renamer an original HEIC is deleted only
\* after its JPG has been written: whenever the picture of a HEIC the run
\* started with is no longer held in HEIC anywhere, a complete JPG of it exists,
\* and a HEIC that cannot be converted is never gone. A deletion that fails (the
\* file is locked) aborts nothing: the original stays where it was, the run
\* ends, and the JPG has its record.
C25_HeicDeletedOnlyAfterConversion ==
    prog \in {"sort", "rename"} =>
        \A q \in HeicOriginals :
            LET x == StartTree.files[q]
            IN  /\ HeicsOf(x.id) = {} => JpgsOf(x.id) # {}
                /\ (~CanOpen(x) \/ (prog = "sort" /\ ~env.heif)) => HeicsOf(x.id) # {}
                /\ (pc = "done" /\ x.locked /\ JpgsOf(x.id) \ DOMAIN StartTree.files # {}) =>
                      /\ Exists(fs, q) /\ fs.files[q] = x
                      /\ (prog = "sort" \/ ~dry_run) =>
                            \E i \in 1..Len(log) : log[i].new_path \in JpgsOf(x.id)

\* C25, its case: the sort pipeline has ended; the HEIC a.heic is gone and its
\* JPG is in a date folder, and the locked b.HEIC, whose deletion failed, is
\* still in the root while its JPG is in a date folder too
C25_Witness ==
    /\ prog = "sort" /\ run = 1 /\ pc = "done"
    /\ \E q \in HeicOriginals :
          /\ ~StartTree.files[q].locked
          /\ HeicsOf(StartTree.files[q].id) = {}
          /\ \E p \in JpgsOf(StartTree.files[q].id) : p.dir # Root
    /\ \E q \in HeicOriginals :
          /\ StartTree.files[q].locked /\ Exists(fs, q)
          /\ \E p \in JpgsOf(StartTree.files[q].id) : p.dir # Root

\* C26 (as the claim states it): the model pass keeps at most three labels, only
\* labels whose confidence exceeds the relevance threshold, best first: a label
\* at or below the threshold is never among the model-derived tags.
C26_KeptLabelsPassTheThreshold ==
    pc = "tagged" =>
        /\ Len(detected) <= 3
        /\ \A i \in 1..Len(detected) : detected[i].confidence > Threshold
        /\ \A i, j \in 1..Len(detected) :
              i < j => detected[i].confidence >= detected[j].confidence

\* the pictures of the input tree that no file holds any more
LostPictures ==
    {tree0.fs.files[q].id : q \in DOMAIN tree0.fs.files} \ {fs.files[p].id : p \in DOMAIN fs.files}

\* one run works on the root, alone
SingleWriter == writers[2].pc = "off"

\* C27: probing and moving are two steps with nothing that holds the candidate
\* between them. With a single writer the path resolve_collision returned is
\* still absent when the move commits, and no picture is lost; with two runs
\* interleaved on one root a picture can be lost (C27_Witness), and then never
\* otherwise than by a move onto a path that was free when it was probed.
C27_SingleWriterCandidateStaysFree ==
    (prog = "sort" /\ pc = "race") =>
        /\ SingleWriter =>
              /\ LostPictures = {}
              /\ \A w \in 1..2 : writers[w].pc = "move" => ~Exists(fs, writers[w].dst)
        /\ \A w \in 1..2 :
              writers[w].pc = "move" =>
                  /\ writers[w].dst.dir # Root
                  /\ Exists(fs, writers[w].dst) => writers[3 - w].pc # "off"

\* C27, its case: two runs were interleaved on one root, both have ended, and a
\* picture of the input is gone: the later move replaced the file the earlier
\* one had placed at the candidate both had found free
C27_Witness ==
    /\ prog = "sort" /\ pc = "race"
    /\ writers[1].pc = "done" /\ writers[2].pc = "done"
    /\ LostPictures # {}

-----------------------------------------------------------------------------
(* What PhotoProcessor.run leaves alone *)

\* the files tree f has under its top-level directory top, with their content
Kept(f, top) == {<<q, f.files[q]>> : q \in {q \in DOMAIN f.files : q.dir # <<>> /\ q.dir[1] = top[1]}}

\* the names staged for the date folder d of the output
StagedNames(d) == {q.name : q \in {q \in Staged(fs) : q.dir[2] = d[2]}}

\* C28: a master run never deletes, moves or modifies a file of the input
\* directory, and every file the output tree held when the run started is still
\* there, unchanged, at every moment of the run. When copy_to_final_destination
\* has run on a date folder that existed, every staged file has been added to
\* it, under its own name when that was free and else under <stem>_<k><ext>
\* with the names of all lower numbers taken.
C28_InputAndOutputFilesAreKept ==
    prog = "master" =>
        /\ Kept(fs, InDir) = Kept(StartTree, InDir)
        /\ Kept(StartTree, OutDir) \subseteq Kept(fs, OutDir)
        /\ (pc = "log" /\ ~dry_run) =>
              \A d \in {d \in SubDirs(StartTree, OutDir) : StagedNames(d) # {}} :
                  LET new == {p \in NewOutFiles : p.dir = d}
                  IN  /\ Cardinality(new) = Cardinality(StagedNames(d))
                      /\ \A p \in new :
                            \/ p.name \in StagedNames(d)
                            \/ \E n \in StagedNames(d) : \E k \in 1..3 :
                                  /\ p = Suffixed(d, n, k)
                                  /\ Exists(fs, P(d, n))
                                  /\ \A j \in 1..(k - 1) : Exists(fs, Suffixed(d, n, j))

\* C28, its case: a live run has copied into a date folder the output already
\* had; the file that was there is unchanged and the staged file of the same
\* name stands beside it as <stem>_1<ext>, the input file still in place
C28_Witness ==
    /\ prog = "master" /\ pc = "log" /\ ~dry_run
    /\ FilesIn(fs, InDir) # {}
    /\ \E q \in OutFiles(StartTree) :
          /\ q.name \in StagedNames(q.dir)
          /\ Suffixed(q.dir, q.name, 1) \in NewOutFiles
          /\ fs.files[q] = StartTree.files[q]

-----------------------------------------------------------------------------
(* The enumeration of the input directory *)

\* C29 (as the claim states it): the two glob patterns of each extension yield
\* every file of the input directory whose extension is a media extension in
\* any case exactly once: when the loop of a master run starts, each such file
\* is once in the list, and when it is over no file has two records.
C29_EachMediaFileListedOnce ==
    (prog = "master" /\ specific_files = <<>>) =>
        /\ (pc = "loop" /\ log = <<>>) =>
              \A p \in {p \in FilesIn(fs, InDir) : Lower(p.name.ext) \in MEDIA_EXT} :
                  Cardinality({i \in 1..Len(filesLeft) : filesLeft[i] = p}) = 1
        /\ pc = "log" =>
              \A i, j \in 1..Len(log) :
                  log[i].original_path = log[j].original_path => i = j

-----------------------------------------------------------------------------
(* The life of a run started from the window *)

\* C30 (as the claim states it): every run that _start_processing accepts,
\* which disables the start button, is eventually followed by _finish_run
\* enabling it again, also when the background thread ends with an exception.
C30_AcceptedRunReenablesTheButton ==
    (gui.start_btn = "disabled") ~> (gui.start_btn = "normal")

====
